---- MODULE Spec2Model ----
(***************************************************************************)
(* The symbol table of the Mach-O linker (lld/MachO/SymbolTable.cpp).      *)
(*                                                                         *)
(* The table is a map from names to slots (Symbol pointers).  A slot is a  *)
(* SymbolUnion on the heap; a heap index stands for its address.  Every    *)
(* add* entry point looks the name up with insert() and then keeps or      *)
(* overwrites the slot in place (replaceSymbol).  Each entry point is a    *)
(* pure operator from the program state to the program state and the       *)
(* returned pointer, so that the re-entrant calls (fetch -> addDefined,    *)
(* addSynthetic -> addDefined, ...) are compositions; one action per entry *)
(* point applies it to inputs drawn from small sets.                       *)
(***************************************************************************)
EXTENDS Integers, Sequences, FiniteSets, TLC

VARIABLES
  symMap,               \* SymbolTable::symMap : name -> slot address, NULL = absent
  heap,                 \* the SymbolUnions allocated so far; address = index
  dupSymDiags,          \* the pool of duplicate-symbol diagnostics
  fetched,              \* the calls made to ArchiveFile::fetch / extract, in order
  numReferencedSymbols, \* DylibFile::numReferencedSymbols, per dylib
  undefs,               \* the undefined-symbol diagnostics pending, in insertion order
  outputSections,       \* the OutputSections made so far, with their boundary symbols
  outputSegments,       \* the OutputSegments made so far, with their boundary symbols
  inputSections,        \* the global inputSections vector
  syntheticSections,    \* the global syntheticSections vector
  config,               \* the options of the link
  crashed,              \* the process died on a null dereference
  ncalls,               \* number of entry-point calls made so far
  last,                 \* history: the last call, its inputs, result and the slot before it
  hist,                 \* history: per name, the calls made on it (while at most two)
                        \*   and the addUndefined requests made on it
  first,                \* history: per name, the pointer its first add* call returned
  threads,              \* the threads inside a call, each with its position and locals
  quiet                 \* history: the report functions called since the last
                        \*   add* or treatUndefinedSymbol call

vars == <<symMap, heap, dupSymDiags, fetched, numReferencedSymbols, undefs,
          outputSections, outputSegments, inputSections, syntheticSections,
          config, crashed, ncalls, last, hist, first, threads, quiet>>

\* ------------------------------------------------------------------ bounds
MaxCalls == 3
NumThreads == 2

\* ------------------------------------------------------------ input domains
\* A name is the sequence of its parts: the prefix the recovery rules look
\* for (if it has one), then the fields that '$' separates.
\* An entry point reads and writes the slot of the one name it is given, so
\* the calls are made on one name; the Eager entry points allocate further
\* slots next to it.
Names == {<<"_f">>}

NULL == 0

\* RefState, ordered Unreferenced < Weak < Strong
Unreferenced == 0
Weak == 1
Strong == 2

\* InputFile handles.  NullFile is the null InputFile* (synthetic symbols,
\* dynamic lookup).
NullFile == "null"
ObjFiles == {"objA", "objB", "memA", "memB"}
BitcodeFiles == {"bcA"}
DylibFiles == {"dylibA"}
ArchiveFiles == {"libX"}
LazyObjFiles == {"lazyO"}
Files == ObjFiles \cup BitcodeFiles \cup DylibFiles \cup ArchiveFiles \cup LazyObjFiles

\* InputFile::priority: the position on the command line, lower = earlier
priority(f) ==
  CASE f = "objA" -> 1
    [] f = "objB" -> 2
    [] f = "memA" -> 3
    [] f = "memB" -> 4
    [] f = "bcA" -> 5
    [] f = "dylibA" -> 6
    [] f = "libX" -> 7
    [] f = "lazyO" -> 8

\* InputFile::lazyArchiveMember: the object was parsed out of an archive
lazyArchiveMember(f) == f \in {"memA", "memB"}

\* isa<ObjFile>(file), isa<BitcodeFile>(file), isa<DylibFile>(file)
isaObjFile(f) == f \in ObjFiles \cup LazyObjFiles
isaBitcodeFile(f) == f \in BitcodeFiles
isaDylibFile(f) == f \in DylibFiles

\* The archive member an archive symbol (cookie) names.
MemberOf(cookie) == IF cookie = 1 THEN "memA" ELSE "memB"
Cookies == {1, 2}

\* The place of a file's definition of a name: its input section and offset.
\* A bitcode file has no sections (the assert of addDefined).
IsecOf(f) == IF f = NullFile \/ isaBitcodeFile(f) THEN "none" ELSE f
ValueOf(f) == IF f = NullFile THEN 0 ELSE 16 * priority(f)

\* ------------------------------------------------------------------- slots
\* The storage of a slot before any variant is constructed in it
\* (new SymbolUnion(): zero-initialised bytes).
RawSym ==
  [kind |-> "Raw", name |-> <<>>, file |-> NullFile, isec |-> "none", value |-> 0, size |-> 0,
   weakDef |-> FALSE, privateExtern |-> FALSE, weakDefCanBeHidden |-> FALSE,
   referencedDynamically |-> FALSE, noDeadStrip |-> FALSE,
   overridesWeakDef |-> FALSE, includeInSymtab |-> FALSE,
   refState |-> Unreferenced, wasBitcodeSymbol |-> FALSE, cookie |-> 0,
   isUsedInRegularObj |-> FALSE]

\* What stands for "no slot" in the history of a call on an absent name.
AbsentSym == [RawSym EXCEPT !.kind = "Absent"]

\* The constructors, with the arguments of the replaceSymbol<T>() calls.
MkDefined(file, isec, value, isWeakDef, isPrivateExtern, includeInSymtab, isReferencedDynamically, noDeadStrip, overridesWeakDef, isWeakDefCanBeHidden) ==
  [RawSym EXCEPT !.kind = "Defined", !.file = file, !.isec = isec,
                 !.value = value, !.weakDef = isWeakDef,
                 !.privateExtern = isPrivateExtern,
                 !.includeInSymtab = includeInSymtab,
                 !.referencedDynamically = isReferencedDynamically,
                 !.noDeadStrip = noDeadStrip,
                 !.overridesWeakDef = overridesWeakDef,
                 !.weakDefCanBeHidden = isWeakDefCanBeHidden]

MkUndefined(file, refState, wasBitcodeSymbol) ==
  [RawSym EXCEPT !.kind = "Undefined", !.file = file, !.refState = refState,
                 !.wasBitcodeSymbol = wasBitcodeSymbol]

MkCommon(file, size, isPrivateExtern) ==
  [RawSym EXCEPT !.kind = "Common", !.file = file, !.size = size,
                 !.privateExtern = isPrivateExtern]

MkDylib(file, isWeakDef, refState) ==
  [RawSym EXCEPT !.kind = "Dylib", !.file = file, !.weakDef = isWeakDef,
                 !.refState = refState]

MkLazyArchive(file, cookie) ==
  [RawSym EXCEPT !.kind = "LazyArchive", !.file = file, !.cookie = cookie]

MkLazyObject(file) ==
  [RawSym EXCEPT !.kind = "LazyObject", !.file = file]

\* The program state the entry points work on, as one record.
Cur ==
  [symMap |-> symMap, heap |-> heap, dupSymDiags |-> dupSymDiags,
   fetched |-> fetched, numReferencedSymbols |-> numReferencedSymbols,
   undefs |-> undefs, outputSections |-> outputSections,
   outputSegments |-> outputSegments, inputSections |-> inputSections,
   syntheticSections |-> syntheticSections, config |-> config]

\* The result of an entry point: the new program state, the returned pointer,
\* and whether the call died on a null dereference (then t is the state at
\* that point).
Ret(t, p) == [t |-> t, ret |-> p, crash |-> FALSE]
Crash(t) == [t |-> t, ret |-> NULL, crash |-> TRUE]

\* replaceSymbol<T>(s, name, ...): construct the new variant in place; the
\* slot keeps its address and its isUsedInRegularObj.  Every call passes the
\* name the slot was looked up under, so the name stays.
replaceSymbol(t, s, sym) ==
  [t EXCEPT !.heap[s] =
     [sym EXCEPT !.name = t.heap[s].name,
                 !.isUsedInRegularObj = sym.isUsedInRegularObj
                                         \/ t.heap[s].isUsedInRegularObj]]

\* !file || isa<ObjFile>(file)
FromRegularObj(file) == file = NullFile \/ isaObjFile(file)

\* getRank(file, isCommon, isWeak)
RankShift == 16777216

getRank(file, isCommon, isWeak) ==
  IF file = NullFile THEN 7 * RankShift
  ELSE IF isCommon
       THEN (IF lazyArchiveMember(file) THEN 6 * RankShift + priority(file)
                                        ELSE 5 * RankShift + priority(file))
  ELSE IF isaDylibFile(file) \/ lazyArchiveMember(file)
       THEN (IF isWeak THEN 4 * RankShift + priority(file)
                       ELSE 3 * RankShift + priority(file))
  ELSE IF isWeak THEN 2 * RankShift + priority(file)
  ELSE 1 * RankShift + priority(file)

\* SymbolTable::find
find(t, name) == t.symMap[name]

\* Mutant of MarkUsed: the flag assigned (=) instead of or-ed in (|=).
MarkUsedAssigned(sym, file) ==
  [sym EXCEPT !.isUsedInRegularObj = FromRegularObj(file)]

\* The flag update of insert(): sym->isUsedInRegularObj |= !file || isa<ObjFile>(file)
MarkUsed(sym, file) ==
  [sym EXCEPT !.isUsedInRegularObj = @ \/ FromRegularObj(file)]

\* SymbolTable::insert, called by one thread at a time: the name is found,
\* or a new SymbolUnion is allocated and put into the map.
insert(t, name, file) ==
  IF t.symMap[name] # NULL
  THEN LET sym == t.symMap[name]
       IN [t |-> [t EXCEPT !.heap[sym] = MarkUsed(@, file)],
           sym |-> sym, wasInserted |-> FALSE]
  ELSE LET sym == Len(t.heap) + 1
       IN [t |-> [t EXCEPT !.heap = Append(@, MarkUsed([RawSym EXCEPT !.name = name], file)),
                           !.symMap[name] = sym],
           sym |-> sym, wasInserted |-> TRUE]

\* --------------------------------------------------------------- addDefined
\* The install at the end of addDefined (and in its weak branch):
\* replaceSymbol<Defined>(s, name, file, isec, value, size, isWeakDef,
\* isExternal=true, isPrivateExtern, includeInSymtab=true, ...).
installDefined(t, s, file, isec, value, isWeakDef, isPrivateExtern, isReferencedDynamically, noDeadStrip, overridesWeakDef, isWeakDefCanBeHidden) ==
  replaceSymbol(t, s,
    MkDefined(file, isec, value, isWeakDef, isPrivateExtern, TRUE,
              isReferencedDynamically, noDeadStrip, overridesWeakDef,
              isWeakDefCanBeHidden))

\* Mutant of weakIncomingWins: the rank comparison the other way round.
weakIncomingWinsReversed(file, defined) ==
  getRank(file, FALSE, TRUE) > getRank(defined.file, FALSE, defined.weakDef)

\* The test of the weak branch: the incoming weak definition replaces the
\* existing Defined when its rank is lower.
weakIncomingWins(file, defined) ==
  getRank(file, FALSE, TRUE) < getRank(defined.file, FALSE, defined.weakDef)

\* Mutant of mergeWeakFlags: privateExtern merged with |= like the flags
\* after it.
mergeWeakFlagsOr(defined, isPrivateExtern, isWeakDefCanBeHidden, isReferencedDynamically, noDeadStrip) ==
  [defined EXCEPT
     !.privateExtern = @ \/ isPrivateExtern,
     !.weakDefCanBeHidden = @ /\ isWeakDefCanBeHidden,
     !.referencedDynamically = @ \/ isReferencedDynamically,
     !.noDeadStrip = @ \/ noDeadStrip]

\* The flag merge of two weak definitions.
mergeWeakFlags(defined, isPrivateExtern, isWeakDefCanBeHidden, isReferencedDynamically, noDeadStrip) ==
  [defined EXCEPT
     !.privateExtern = @ /\ isPrivateExtern,
     !.weakDefCanBeHidden = @ /\ isWeakDefCanBeHidden,
     !.referencedDynamically = @ \/ isReferencedDynamically,
     !.noDeadStrip = @ \/ noDeadStrip]

\* A record of the duplicate-symbol pool: the two places and the slot.
DuplicateSymbolDiag(defined, file, isec, value, s) ==
  [src1 |-> <<defined.isec, defined.value, defined.file>>,
   src2 |-> <<isec, value, file>>,
   sym |-> s]

\* The DylibSymbol constructor: a symbol that is constructed referenced
\* counts for its dylib.
dylibConstructed(t, file, refState) ==
  IF refState > Unreferenced /\ file # NullFile
  THEN [t EXCEPT !.numReferencedSymbols[file] = @ + 1]
  ELSE t

\* DylibSymbol::unreference: a referenced symbol of a real dylib gives its
\* reference back to the dylib.
unreference(t, dysym) ==
  IF dysym.refState > Unreferenced /\ dysym.file # NullFile
  THEN [t EXCEPT !.numReferencedSymbols[dysym.file] = @ - 1]
  ELSE t

\* DylibSymbol::reference: the first reference counts for the dylib; the
\* state only goes up.
reference(t, s, refState) ==
  LET dysym == t.heap[s]
      t1 == IF dysym.refState = Unreferenced /\ dysym.file # NullFile
            THEN [t EXCEPT !.numReferencedSymbols[dysym.file] = @ + 1]
            ELSE t
  IN [t1 EXCEPT !.heap[s].refState = IF @ < refState THEN refState ELSE @]

\* Mutant of dylibHitOutcome: the test of the incoming file's
\* lazyArchiveMember left out.
dylibHitOutcomeNoLazyTest(file) ==
  IF file = NullFile THEN "crash" ELSE "install"

\* addDefined on an existing DylibSymbol: file->lazyArchiveMember is read
\* through the incoming file pointer; for a lazy archive member the null
\* Defined pointer of the enclosing if is returned.
dylibHitOutcome(file) ==
  IF file = NullFile THEN "crash"
  ELSE IF lazyArchiveMember(file) THEN "null"
  ELSE "install"

\* What addDefined does with a name that is already in the table; old is the
\* slot it found.  "keep": return the existing Defined; "null": return the
\* null Defined pointer; "crash": a null InputFile is dereferenced;
\* "merge": weak flags merged; "dup": a duplicate recorded, then installed;
\* "install": replaced by the incoming definition.
definedHitOutcome(old, file, isWeakDef) ==
  CASE old.kind = "Defined" ->
         IF isWeakDef
         THEN (IF weakIncomingWins(file, old) THEN "install"
               ELSE IF old.weakDef THEN "merge" ELSE "keep")
         ELSE IF old.weakDef THEN "install"
         ELSE IF file # NullFile /\ lazyArchiveMember(file)
         THEN (IF old.file = NullFile THEN "crash"
               ELSE IF ~isaBitcodeFile(old.file)
               THEN (IF lazyArchiveMember(old.file)
                     THEN (IF priority(file) < priority(old.file)
                           THEN "keep" ELSE "install")
                     ELSE "keep")
               ELSE "install")
         ELSE "dup"
    [] old.kind = "Dylib" -> dylibHitOutcome(file)
    [] old.kind = "Common" ->
         IF old.file = NullFile THEN "crash"
         ELSE IF lazyArchiveMember(old.file)
         THEN (IF file = NullFile THEN "crash"
               ELSE IF lazyArchiveMember(file)
                       /\ priority(file) < priority(old.file)
               THEN "null" ELSE "install")
         ELSE "install"
    [] OTHER -> "install"

\* SymbolTable::addDefined
addDefined(t, name, file, isec, value, isWeakDef, isPrivateExtern, isReferencedDynamically, noDeadStrip, isWeakDefCanBeHidden) ==
  LET i == insert(t, name, file)
      s == i.sym
      old == i.t.heap[s]
      how == IF i.wasInserted THEN "install"
             ELSE definedHitOutcome(old, file, isWeakDef)
      \* Existing DylibSymbol: overridesWeakDef = !isWeakDef && dysym->isWeakDef()
      overridesWeakDef ==
        ~i.wasInserted /\ old.kind = "Dylib" /\ ~isWeakDef /\ old.weakDef
      \* Existing Undefined that came from bitcode: keep its file
      file1 == IF ~i.wasInserted /\ old.kind = "Undefined" /\ old.wasBitcodeSymbol
               THEN old.file ELSE file
      t1 == IF ~i.wasInserted /\ old.kind = "Dylib"
            THEN unreference(i.t, old) ELSE i.t
      t2 == IF how = "dup"
            THEN [t1 EXCEPT !.dupSymDiags =
                    Append(@, DuplicateSymbolDiag(old, file, isec, value, s))]
            ELSE t1
  IN CASE how = "crash" -> Crash(i.t)
       [] how = "null" -> Ret(i.t, NULL)
       [] how = "keep" -> Ret(i.t, s)
       [] how = "merge" ->
            Ret([i.t EXCEPT !.heap[s] =
                   mergeWeakFlags(old, isPrivateExtern, isWeakDefCanBeHidden,
                                  isReferencedDynamically, noDeadStrip)], s)
       [] OTHER ->
            Ret(installDefined(t2, s, file1, isec, value, isWeakDef,
                               isPrivateExtern, isReferencedDynamically,
                               noDeadStrip, overridesWeakDef,
                               isWeakDefCanBeHidden), s)

\* The Eager entry points allocate a SymbolUnion and call symMap.insert,
\* which leaves an entry that is already there as it is; they go on with
\* accessor->second, the slot the map holds for the name afterwards.
eagerInsert(t, name, sym) ==
  LET p == Len(t.heap) + 1
      t1 == [t EXCEPT !.heap = Append(@, [sym EXCEPT !.name = name])]
  IN IF t.symMap[name] # NULL
     THEN [t |-> t1, second |-> t.symMap[name]]
     ELSE [t |-> [t1 EXCEPT !.symMap[name] = p], second |-> p]

\* SymbolTable::addDefinedEager
addDefinedEager(t, name, file, isec, value, isWeakDef, isPrivateExtern, isReferencedDynamically, noDeadStrip, isWeakDefCanBeHidden) ==
  LET e == eagerInsert(t, name, RawSym)
      t1 == installDefined(e.t, e.second, file, isec, value, isWeakDef,
                           isPrivateExtern, isReferencedDynamically,
                           noDeadStrip, FALSE, isWeakDefCanBeHidden)
  IN Ret([t1 EXCEPT !.heap[e.second] = MarkUsed(@, file)], e.second)

\* SymbolTable::aliasDefined; src is the Defined the alias copies.
aliasDefined(t, src, target, newFile, makePrivateExtern) ==
  addDefined(t, target, newFile, src.isec, src.value, src.weakDef,
             makePrivateExtern \/ src.privateExtern,
             src.referencedDynamically, src.noDeadStrip,
             src.weakDefCanBeHidden)

\* -------------------------------------------------------------- addUndefined
\* Mutant of raiseRefState: the requested state assigned without std::max.
overwriteRefState(undefined, refState) ==
  [undefined EXCEPT !.refState = refState]

\* undefined->refState = std::max(undefined->refState, refState)
raiseRefState(undefined, refState) ==
  [undefined EXCEPT !.refState = IF @ < refState THEN refState ELSE @]

\* SymbolTable::addUndefined
addUndefined(t, name, file, isWeakRef) ==
  LET i == insert(t, name, file)
      s == i.sym
      old == i.t.heap[s]
      refState == IF isWeakRef THEN Weak ELSE Strong
  IN IF i.wasInserted
     THEN Ret(replaceSymbol(i.t, s, MkUndefined(file, refState, FALSE)), s)
     ELSE IF old.kind = "Dylib" THEN Ret(reference(i.t, s, refState), s)
     ELSE IF old.kind = "Undefined"
     THEN Ret([i.t EXCEPT !.heap[s] = raiseRefState(old, refState)], s)
     ELSE Ret(i.t, s)

\* SymbolTable::addUndefinedEager
addUndefinedEager(t, name, file, isWeakRef) ==
  LET refState == IF isWeakRef THEN Weak ELSE Strong
      e == eagerInsert(t, name, MkUndefined(file, refState, FALSE))
  IN Ret([e.t EXCEPT !.heap[e.second] = MarkUsed(@, file)], e.second)

\* ----------------------------------------------------------------- addCommon
\* What addCommon does with a name that is already in the table.
commonHitOutcome(old, file, size) ==
  CASE old.kind = "Common" ->
         IF size < old.size THEN "keep"
         ELSE IF old.file = NullFile THEN "crash"
         ELSE IF lazyArchiveMember(old.file)
         THEN (IF file = NullFile THEN "crash"
               ELSE IF lazyArchiveMember(file)
                       /\ priority(file) < priority(old.file)
               THEN "keep" ELSE "install")
         ELSE "install"
    [] old.kind = "Defined" ->
         IF old.file = NullFile THEN "crash"
         ELSE IF ~lazyArchiveMember(old.file) THEN "keep"
         ELSE IF file = NullFile THEN "crash"
         ELSE IF lazyArchiveMember(file)
         THEN (IF priority(file) < priority(old.file)
               THEN "install" ELSE "keep")
         ELSE "install"
    [] OTHER -> "install"

\* SymbolTable::addCommon
addCommon(t, name, file, size, isPrivateExtern) ==
  LET i == insert(t, name, file)
      s == i.sym
      how == IF i.wasInserted THEN "install"
             ELSE commonHitOutcome(i.t.heap[s], file, size)
  IN CASE how = "crash" -> Crash(i.t)
       [] how = "keep" -> Ret(i.t, s)
       [] OTHER ->
            Ret(replaceSymbol(i.t, s, MkCommon(file, size, isPrivateExtern)), s)

\* SymbolTable::addCommonEager
addCommonEager(t, name, file, size, isPrivateExtern) ==
  LET e == eagerInsert(t, name, MkCommon(file, size, isPrivateExtern))
  IN Ret([e.t EXCEPT !.heap[e.second] = MarkUsed(@, file)], e.second)

\* ------------------------------------------------------------------ dylibs
\* SymbolTable::addDylib
addDylib(t, name, file, isWeakDef) ==
  LET e == eagerInsert(t, name, MkDylib(file, isWeakDef, Unreferenced))
  IN Ret(e.t, e.second)

\* Mutant of dylibReplaces: every existing DylibSymbol is replaced.
dylibReplacesAnyDylib(wasInserted, old, file, isWeakDef) ==
  wasInserted \/ old.kind \in {"Undefined", "Dylib"}

\* The condition under which resolveDylib installs the incoming DylibSymbol.
dylibReplaces(wasInserted, old, file, isWeakDef) ==
  \/ wasInserted
  \/ old.kind = "Undefined"
  \/ /\ old.kind = "Dylib"
     /\ \/ ~isWeakDef /\ old.weakDef
        \/ file # NullFile /\ old.file = NullFile

\* SymbolTable::resolveDylib
resolveDylib(t, name, file, isWeakDef) ==
  LET i == insert(t, name, file)
      s == i.sym
      old == i.t.heap[s]
      hit == ~i.wasInserted
      t1 == IF hit /\ old.kind = "Defined" /\ isWeakDef /\ ~old.weakDef
            THEN [i.t EXCEPT !.heap[s].overridesWeakDef = TRUE]
            ELSE i.t
      refState == IF hit /\ old.kind \in {"Undefined", "Dylib"}
                  THEN old.refState ELSE Unreferenced
  IN IF dylibReplaces(i.wasInserted, old, file, isWeakDef)
     THEN LET t2 == IF old.kind = "Dylib" THEN unreference(t1, old) ELSE t1
          IN Ret(replaceSymbol(dylibConstructed(t2, file, refState), s,
                               MkDylib(file, isWeakDef, refState)), s)
     ELSE Ret(t1, s)

\* SymbolTable::addDynamicLookup
addDynamicLookup(t, name) == resolveDylib(t, name, NullFile, FALSE)

\* ------------------------------------------------------------ lazy symbols
\* The definition an extracted member feeds back: a strong external
\* definition of the name at the member's place.
memberDefines(t, name, member) ==
  addDefined(t, name, member, IsecOf(member), ValueOf(member), FALSE, FALSE,
             FALSE, FALSE, FALSE)

\* ArchiveFile::fetch(sym): the member is extracted and its symbols are fed
\* back into the table.
fetch(t, name, archive, cookie) ==
  memberDefines([t EXCEPT !.fetched = Append(@, <<archive, cookie>>)],
                name, MemberOf(cookie))

\* extract(file, name): the lazy object file is parsed and its symbols are
\* fed back into the table.
extract(t, name, file) ==
  memberDefines([t EXCEPT !.fetched = Append(@, <<file, 0>>)], name, file)

\* Mutant of addLazyArchive: a weak-def DylibSymbol makes the member be
\* fetched whether it is referenced or not.
addLazyArchiveFetchUnreferenced(t, name, file, cookie) ==
  LET i == insert(t, name, file)
      s == i.sym
      old == i.t.heap[s]
      f == fetch(i.t, name, file, cookie)
  IN IF i.wasInserted
     THEN Ret(replaceSymbol(i.t, s, MkLazyArchive(file, cookie)), s)
     ELSE IF old.kind = "Undefined" \/ (old.kind = "Dylib" /\ old.weakDef)
     THEN [f EXCEPT !.ret = IF f.crash THEN NULL ELSE s]
     ELSE Ret(i.t, s)

\* SymbolTable::addLazyArchive
addLazyArchive(t, name, file, cookie) ==
  LET i == insert(t, name, file)
      s == i.sym
      old == i.t.heap[s]
      f == fetch(i.t, name, file, cookie)
  IN IF i.wasInserted
     THEN Ret(replaceSymbol(i.t, s, MkLazyArchive(file, cookie)), s)
     ELSE IF old.kind = "Undefined"
     THEN [f EXCEPT !.ret = IF f.crash THEN NULL ELSE s]
     ELSE IF old.kind = "Dylib" /\ old.weakDef
     THEN (IF old.refState # Unreferenced
           THEN [f EXCEPT !.ret = IF f.crash THEN NULL ELSE s]
           ELSE Ret(replaceSymbol(i.t, s, MkLazyArchive(file, cookie)), s))
     ELSE Ret(i.t, s)

\* SymbolTable::addLazyObject
addLazyObject(t, name, file) ==
  LET i == insert(t, name, file)
      s == i.sym
      old == i.t.heap[s]
      x == extract(i.t, name, file)
  IN IF i.wasInserted
     THEN Ret(replaceSymbol(i.t, s, MkLazyObject(file)), s)
     ELSE IF old.kind = "Undefined"
     THEN [x EXCEPT !.ret = IF x.crash THEN NULL ELSE s]
     ELSE IF old.kind = "Dylib" /\ old.weakDef
     THEN (IF old.refState # Unreferenced
           THEN [x EXCEPT !.ret = IF x.crash THEN NULL ELSE s]
           ELSE Ret(replaceSymbol(i.t, s, MkLazyObject(file)), s))
     ELSE Ret(i.t, s)

\* -------------------------------------------------------------- addSynthetic
\* SymbolTable::addSynthetic: addDefined with a null file, then a write of
\* includeInSymtab through the returned pointer.
addSynthetic(t, name, isec, value, isPrivateExtern, includeInSymtab, referencedDynamically) ==
  LET r == addDefined(t, name, NullFile, isec, value, FALSE, isPrivateExtern,
                      referencedDynamically, FALSE, FALSE)
  IN IF r.crash THEN r
     ELSE IF r.ret = NULL THEN Crash(r.t)
     ELSE Ret([r.t EXCEPT !.heap[r.ret].includeInSymtab = includeInSymtab],
              r.ret)

\* ------------------------------------------------------- boundary symbols
\* The value of a boundary symbol before layout: uint64_t(-1), all bits set.
BoundaryValue == -1

\* Mutant of createBoundarySymbol: a boundary symbol made like any other
\* synthetic symbol, external and in the symbol table.
createBoundarySymbolInSymtab(t, sym) ==
  addSynthetic(t, sym.name, "none", BoundaryValue, FALSE, TRUE, FALSE)

\* createBoundarySymbol
createBoundarySymbol(t, sym) ==
  addSynthetic(t, sym.name, "none", BoundaryValue, TRUE, FALSE, FALSE)

\* StringRef::consume_front / startswith: the name begins with the prefix.
startswith(name, prefix) == name # <<>> /\ Head(name) = prefix

\* StringRef::split('$') of what follows the prefix: the text before the
\* first '$' and the text after it.
split(rest) ==
  [first |-> IF Len(rest) >= 1 THEN rest[1] ELSE "",
   second |-> IF Len(rest) >= 2 THEN rest[2] ELSE ""]

\* The positions of the output sections with the given names; those of the
\* synthetic sections come first in outputSections.
SectionsNamed(t, from, segName, sectName) ==
  {i \in from..Len(t.outputSections) :
     /\ t.outputSections[i].segname = segName
     /\ t.outputSections[i].name = sectName}

\* ConcatOutputSection::getOrCreateForInput(isec): the ConcatOutputSection
\* of the input section's names, made when there is none.
getOrCreateForInput(t, segName, sectName) ==
  LET have == SectionsNamed(t, Len(t.syntheticSections) + 1, segName, sectName)
  IN IF have # {}
     THEN [t |-> t, osec |-> CHOOSE i \in have : TRUE]
     ELSE [t |-> [t EXCEPT !.outputSections =
                    Append(@, [segname |-> segName, name |-> sectName,
                               sectionStartSymbols |-> <<>>,
                               sectionEndSymbols |-> <<>>])],
           osec |-> Len(t.outputSections) + 1]

\* getOrCreateOutputSegment(segName)
getOrCreateOutputSegment(t, segName) ==
  LET have == {i \in 1..Len(t.outputSegments) :
                 t.outputSegments[i].name = segName}
  IN IF have # {}
     THEN [t |-> t, seg |-> CHOOSE i \in have : TRUE]
     ELSE [t |-> [t EXCEPT !.outputSegments =
                    Append(@, [name |-> segName,
                               segmentStartSymbols |-> <<>>,
                               segmentEndSymbols |-> <<>>])],
           seg |-> Len(t.outputSegments) + 1]

\* Mutant of pushSectionBoundary: the two lists taken for each other.
pushSectionBoundarySwapped(t, osec, which, p) ==
  IF which = "Start"
  THEN [t EXCEPT !.outputSections[osec].sectionEndSymbols = Append(@, p)]
  ELSE [t EXCEPT !.outputSections[osec].sectionStartSymbols = Append(@, p)]

\* The end of handleSectionBoundarySymbol: the boundary symbol is pushed to
\* the start or the end list of the output section.
pushSectionBoundary(t, osec, which, p) ==
  IF which = "Start"
  THEN [t EXCEPT !.outputSections[osec].sectionStartSymbols = Append(@, p)]
  ELSE [t EXCEPT !.outputSections[osec].sectionEndSymbols = Append(@, p)]

\* osec->sectionStartSymbols.push_back(createBoundarySymbol(sym)), or the
\* same with the end list; b is what createBoundarySymbol returned.
sectionBoundaryPushed(b, osec, which) ==
  IF b.crash THEN b
  ELSE Ret(pushSectionBoundary(b.t, osec, which, b.ret), b.ret)

\* handleSectionBoundarySymbol; which is "Start" or "End".
handleSectionBoundarySymbol(t, sym, segSect, which) ==
  LET segName == split(segSect).first
      sectName == split(segSect).second
      \* for (SyntheticSection *ssec : syntheticSections) ... osec = ssec->isec->parent
      synth == {i \in 1..Len(t.syntheticSections) :
                  t.syntheticSections[i] = <<segName, sectName>>}
      \* if (!osec): a synthetic input section, marked live, put into its
      \* output section and into inputSections
      made == getOrCreateForInput(t, segName, sectName)
      osec == IF synth # {} THEN CHOOSE i \in synth : \A j \in synth : i <= j
              ELSE made.osec
      t1 == IF synth # {} THEN t
            ELSE [made.t EXCEPT !.inputSections =
                    Append(@, [segname |-> segName, name |-> sectName,
                               live |-> TRUE, parent |-> made.osec])]
  IN CHOOSE r \in {sectionBoundaryPushed(b, osec, which) :
                     b \in {createBoundarySymbol(t1, sym)}} : TRUE

\* seg->segmentStartSymbols.push_back(createBoundarySymbol(sym)), or the
\* same with the end list; b is what createBoundarySymbol returned.
segmentBoundaryPushed(b, seg, which) ==
  IF b.crash THEN b
  ELSE IF which = "Start"
  THEN Ret([b.t EXCEPT !.outputSegments[seg].segmentStartSymbols =
              Append(@, b.ret)], b.ret)
  ELSE Ret([b.t EXCEPT !.outputSegments[seg].segmentEndSymbols =
              Append(@, b.ret)], b.ret)

\* handleSegmentBoundarySymbol
handleSegmentBoundarySymbol(t, sym, segName, which) ==
  LET g == getOrCreateOutputSegment(t, segName)
  IN CHOOSE r \in {segmentBoundaryPushed(b, g.seg, which) :
                     b \in {createBoundarySymbol(g.t, sym)}} : TRUE

\* ------------------------------------------------------ undefined symbols
\* The result of recoverFromUndefinedSymbol: the new state and the bool.
Recovered(r, found) == [r EXCEPT !.ret = found]

\* Mutant of recoverFromUndefinedSymbol: the warning treatment returns true
\* like the two treatments before it.
recoverWarningReturnsTrue(t, sym) ==
  LET name == sym.name
      treatment == t.config.undefinedSymbolTreatment
  IN CASE startswith(name, "section$start$") ->
            Recovered(handleSectionBoundarySymbol(t, sym, Tail(name), "Start"), TRUE)
       [] startswith(name, "section$end$") ->
            Recovered(handleSectionBoundarySymbol(t, sym, Tail(name), "End"), TRUE)
       [] startswith(name, "segment$start$") ->
            Recovered(handleSegmentBoundarySymbol(t, sym, split(Tail(name)).first, "Start"), TRUE)
       [] startswith(name, "segment$end$") ->
            Recovered(handleSegmentBoundarySymbol(t, sym, split(Tail(name)).first, "End"), TRUE)
       [] startswith(name, "___dtrace_") -> Recovered(Ret(t, NULL), TRUE)
       [] name \in t.config.explicitDynamicLookups ->
            Recovered(addDynamicLookup(t, name), TRUE)
       [] treatment \in {"dynamic_lookup", "suppress", "warning"} ->
            Recovered(addDynamicLookup(t, name), TRUE)
       [] OTHER -> Recovered(Ret(t, NULL), FALSE)

\* recoverFromUndefinedSymbol: the rules in the order of the code; the first
\* that applies decides.
recoverFromUndefinedSymbol(t, sym) ==
  LET name == sym.name
      treatment == t.config.undefinedSymbolTreatment
  IN CASE startswith(name, "section$start$") ->
            Recovered(handleSectionBoundarySymbol(t, sym, Tail(name), "Start"), TRUE)
       [] startswith(name, "section$end$") ->
            Recovered(handleSectionBoundarySymbol(t, sym, Tail(name), "End"), TRUE)
       [] startswith(name, "segment$start$") ->
            Recovered(handleSegmentBoundarySymbol(t, sym, split(Tail(name)).first, "Start"), TRUE)
       [] startswith(name, "segment$end$") ->
            Recovered(handleSegmentBoundarySymbol(t, sym, split(Tail(name)).first, "End"), TRUE)
       [] startswith(name, "___dtrace_") -> Recovered(Ret(t, NULL), TRUE)
       [] name \in t.config.explicitDynamicLookups ->
            Recovered(addDynamicLookup(t, name), TRUE)
       [] treatment \in {"dynamic_lookup", "suppress"} ->
            Recovered(addDynamicLookup(t, name), TRUE)
       [] treatment = "warning" ->
            Recovered(addDynamicLookup(t, name), FALSE)
       [] OTHER -> Recovered(Ret(t, NULL), FALSE)

\* undefs[&sym]: the entry of the symbol, put at the end when there is none.
undefsEntry(t, u) ==
  LET have == {i \in 1..Len(t.undefs) : t.undefs[i].sym = u}
  IN IF have # {}
     THEN [t |-> t, at |-> CHOOSE i \in have : TRUE]
     ELSE [t |-> [t EXCEPT !.undefs =
                    Append(@, [sym |-> u, codeReferences |-> <<>>,
                               otherReferences |-> <<>>])],
           at |-> Len(t.undefs) + 1]

\* treatUndefinedSymbol, both overloads; u is the address of the Undefined,
\* ref the place of the reference: a source text, or a section and offset;
\* r is what recoverFromUndefinedSymbol returned.
referenceRecorded(r, u, ref) ==
  LET e == undefsEntry(r.t, u)
  IN IF r.crash THEN Crash(r.t)
     ELSE IF r.ret THEN Ret(r.t, NULL)
     ELSE IF ref.kind = "other"
     THEN Ret([e.t EXCEPT !.undefs[e.at].otherReferences = Append(@, ref.source)],
              NULL)
     ELSE Ret([e.t EXCEPT !.undefs[e.at].codeReferences =
                 Append(@, <<ref.isec, ref.offset>>)], NULL)

treatUndefinedSymbol(t, u, ref) ==
  CHOOSE res \in {referenceRecorded(r, u, ref) :
                    r \in {recoverFromUndefinedSymbol(t, t.heap[u])}} : TRUE

\* reportPendingDuplicateSymbols: one warning for every record of the pool
\* (deadStripDuplicates is not set in the configurations looked at); the
\* pool is left as it is.
reportPendingDuplicateSymbols(t) ==
  [t |-> t, emitted |-> Len(t.dupSymDiags)]

\* reportPendingUndefinedSymbols: one diagnostic for every entry of the map,
\* then undefs.clear().
reportPendingUndefinedSymbols(t) ==
  [t |-> [t EXCEPT !.undefs = <<>>], emitted |-> Len(t.undefs)]

\* ------------------------------------------------------------------ inputs
\* The flags of an incoming definition:
\* <<isPrivateExtern, isWeakDefCanBeHidden, isReferencedDynamically, noDeadStrip>>
FlagVecs ==
  {<<TRUE, TRUE, FALSE, FALSE>>,
   <<FALSE, FALSE, TRUE, TRUE>>,
   <<TRUE, FALSE, TRUE, FALSE>>}

DefinedFiles == {"objA", "objB", "memA", "memB", "bcA"}
EagerFiles == {"objB", "bcA"}
UndefinedFiles == {"objA", "bcA"}
CommonFiles == {"objA", "memA", "memB"}
CommonSizes == {4, 8}

\* The Defined symbols an alias is made of (they need not be in the table).
AliasSources ==
  {MkDefined("objA", "objA", 16, w, FALSE, TRUE, FALSE, w, FALSE, FALSE) :
     w \in BOOLEAN}

\* The inputs of a call, as recorded in the history.
NoArg ==
  [file |-> NullFile, weakDef |-> FALSE, privateExtern |-> FALSE,
   weakDefCanBeHidden |-> FALSE, referencedDynamically |-> FALSE,
   noDeadStrip |-> FALSE, isWeakRef |-> FALSE, size |-> 0, cookie |-> 0,
   includeInSymtab |-> FALSE, sym |-> NULL, ref |-> "none"]

DefArg(file, isWeakDef, fl) ==
  [NoArg EXCEPT !.file = file, !.weakDef = isWeakDef, !.privateExtern = fl[1],
                !.weakDefCanBeHidden = fl[2], !.referencedDynamically = fl[3],
                !.noDeadStrip = fl[4]]

\* -------------------------------------------------------------------- state
NoCall ==
  [op |-> "none", name |-> <<>>, arg |-> NoArg, ret |-> NULL,
   pre |-> AbsentSym, preDups |-> 0, preFetched |-> 0,
   preRefs |-> [f \in DylibFiles |-> 0], preUndefs |-> <<>>,
   preSections |-> <<>>, preSegments |-> <<>>, preQuiet |-> {}, emitted |-> 0,
   prePtr |-> NULL]

\* The options as the driver leaves them when no option is given.
DefaultConfig ==
  [undefinedSymbolTreatment |-> "error", explicitDynamicLookups |-> {},
   deadStripDuplicates |-> FALSE]

\* The program state after construction, for the names and options given:
\* an empty table, empty pools, no output section but those of the synthetic
\* sections.
EmptyTable(names, cfg, ssecs) ==
  [symMap |-> [n \in names |-> NULL],
   heap |-> <<>>,
   dupSymDiags |-> <<>>,
   fetched |-> <<>>,
   numReferencedSymbols |-> [f \in DylibFiles |-> 0],
   undefs |-> <<>>,
   outputSections |-> [i \in 1..Len(ssecs) |->
                         [segname |-> ssecs[i][1], name |-> ssecs[i][2],
                          sectionStartSymbols |-> <<>>,
                          sectionEndSymbols |-> <<>>]],
   outputSegments |-> <<>>,
   inputSections |-> <<>>,
   syntheticSections |-> ssecs,
   config |-> cfg]

\* The behaviour starts in program state t, with no call made yet.
InitFrom(t) ==
  /\ symMap = t.symMap
  /\ heap = t.heap
  /\ dupSymDiags = t.dupSymDiags
  /\ fetched = t.fetched
  /\ numReferencedSymbols = t.numReferencedSymbols
  /\ undefs = t.undefs
  /\ outputSections = t.outputSections
  /\ outputSegments = t.outputSegments
  /\ inputSections = t.inputSections
  /\ syntheticSections = t.syntheticSections
  /\ config = t.config
  /\ crashed = FALSE
  /\ ncalls = 0
  /\ last = NoCall
  /\ hist = [n \in DOMAIN t.symMap |->
               [calls |-> <<>>, more |-> FALSE, undefOnly |-> TRUE,
                maxReq |-> Unreferenced]]
  /\ first = [n \in DOMAIN t.symMap |-> -1]
  /\ quiet = {}

\* No thread is inside a call: the entry points run one after the other.
Sequential == threads = <<>>

Init == InitFrom(EmptyTable(Names, DefaultConfig, <<>>)) /\ Sequential

\* The slot of a name as a call finds it.
SlotOf(name) == IF symMap[name] = NULL THEN AbsentSym ELSE heap[symMap[name]]

\* The history of a name after one more call on it: the first two calls are
\* kept, with their inputs; undefOnly says that every call so far was an
\* addUndefined, maxReq is the strongest reference those calls asked for.
Remember(h, op, arg) ==
  LET fits == ~h.more /\ Len(h.calls) < 2
      req == IF arg.isWeakRef THEN Weak ELSE Strong
  IN [calls |-> IF fits THEN Append(h.calls, [op |-> op, arg |-> arg]) ELSE <<>>,
      more |-> ~fits,
      undefOnly |-> h.undefOnly /\ op = "addUndefined",
      maxReq |-> IF op = "addUndefined" /\ req > h.maxReq THEN req ELSE h.maxReq]

\* One call of an entry point: r is what the entry point makes of the
\* current state.  A call that dereferences a null pointer ends the process.
Do(op, name, arg, r) ==
  /\ ~crashed
  /\ symMap' = r.t.symMap
  /\ heap' = r.t.heap
  /\ dupSymDiags' = r.t.dupSymDiags
  /\ fetched' = r.t.fetched
  /\ numReferencedSymbols' = r.t.numReferencedSymbols
  /\ undefs' = r.t.undefs
  /\ outputSections' = r.t.outputSections
  /\ outputSegments' = r.t.outputSegments
  /\ inputSections' = r.t.inputSections
  /\ UNCHANGED <<syntheticSections, config, threads>>
  /\ crashed' = r.crash
  /\ ncalls' = ncalls + 1
  /\ last' = [op |-> op, name |-> name, arg |-> arg, ret |-> r.ret,
              pre |-> SlotOf(name), preDups |-> Len(dupSymDiags),
              preFetched |-> Len(fetched), preRefs |-> numReferencedSymbols,
              preUndefs |-> undefs, preSections |-> outputSections,
              preSegments |-> outputSegments, preQuiet |-> quiet,
              emitted |-> 0, prePtr |-> symMap[name]]
  /\ quiet' = {}
  /\ hist' = [hist EXCEPT ![name] = Remember(@, op, arg)]
  /\ first' = [first EXCEPT ![name] = IF @ = -1 /\ ~r.crash THEN r.ret ELSE @]

\* ------------------------------------------------------------------ actions
AddDefined ==
  \E n \in Names, f \in DefinedFiles, w \in BOOLEAN, fl \in FlagVecs :
    /\ ncalls < MaxCalls
    /\ Do("addDefined", n, DefArg(f, w, fl),
          addDefined(Cur, n, f, IsecOf(f), ValueOf(f), w, fl[1], fl[3], fl[4], fl[2]))

AddDefinedEager ==
  \E n \in Names, f \in EagerFiles, w \in BOOLEAN :
    /\ ncalls < MaxCalls
    /\ Do("addDefinedEager", n, DefArg(f, w, <<FALSE, FALSE, FALSE, FALSE>>),
          addDefinedEager(Cur, n, f, IsecOf(f), ValueOf(f), w, FALSE, FALSE,
                          FALSE, FALSE))

AliasDefined ==
  \E n \in Names, src \in AliasSources, f \in {"objB", NullFile} :
    /\ ncalls < MaxCalls
    /\ Do("aliasDefined", n,
          DefArg(f, src.weakDef, <<TRUE, src.weakDefCanBeHidden,
                                   src.referencedDynamically, src.noDeadStrip>>),
          aliasDefined(Cur, src, n, f, TRUE))

AddUndefined ==
  \E n \in Names, f \in UndefinedFiles, wr \in BOOLEAN :
    /\ ncalls < MaxCalls
    /\ Do("addUndefined", n, [NoArg EXCEPT !.file = f, !.isWeakRef = wr],
          addUndefined(Cur, n, f, wr))

AddUndefinedEager ==
  \E n \in Names, wr \in BOOLEAN :
    /\ ncalls < MaxCalls
    /\ Do("addUndefinedEager", n, [NoArg EXCEPT !.file = "bcA", !.isWeakRef = wr],
          addUndefinedEager(Cur, n, "bcA", wr))

AddCommon ==
  \E n \in Names, f \in CommonFiles, sz \in CommonSizes :
    /\ ncalls < MaxCalls
    /\ Do("addCommon", n, [NoArg EXCEPT !.file = f, !.size = sz],
          addCommon(Cur, n, f, sz, FALSE))

AddCommonEager ==
  \E n \in Names :
    /\ ncalls < MaxCalls
    /\ Do("addCommonEager", n, [NoArg EXCEPT !.file = "bcA", !.size = 4],
          addCommonEager(Cur, n, "bcA", 4, FALSE))

AddDylib ==
  \E n \in Names, f \in DylibFiles, w \in BOOLEAN :
    /\ ncalls < MaxCalls
    /\ Do("addDylib", n, [NoArg EXCEPT !.file = f, !.weakDef = w],
          addDylib(Cur, n, f, w))

ResolveDylib ==
  \E n \in Names, f \in DylibFiles, w \in BOOLEAN :
    /\ ncalls < MaxCalls
    /\ Do("resolveDylib", n, [NoArg EXCEPT !.file = f, !.weakDef = w],
          resolveDylib(Cur, n, f, w))

AddDynamicLookup ==
  \E n \in Names :
    /\ ncalls < MaxCalls
    /\ Do("addDynamicLookup", n, NoArg, addDynamicLookup(Cur, n))

AddLazyArchive ==
  \E n \in Names, f \in ArchiveFiles, c \in Cookies :
    /\ ncalls < MaxCalls
    /\ Do("addLazyArchive", n, [NoArg EXCEPT !.file = f, !.cookie = c],
          addLazyArchive(Cur, n, f, c))

AddLazyObject ==
  \E n \in Names, f \in LazyObjFiles :
    /\ ncalls < MaxCalls
    /\ Do("addLazyObject", n, [NoArg EXCEPT !.file = f],
          addLazyObject(Cur, n, f))

AddSynthetic ==
  \E n \in Names, pe \in BOOLEAN :
    /\ ncalls < MaxCalls
    /\ Do("addSynthetic", n,
          [NoArg EXCEPT !.privateExtern = pe, !.includeInSymtab = ~pe],
          addSynthetic(Cur, n, "none", 0, pe, ~pe, FALSE))

\* SymbolTable::find: a lookup changes nothing but the history.
Find ==
  \E n \in Names :
    /\ ~crashed
    /\ ncalls < MaxCalls
    /\ ncalls' = ncalls + 1
    /\ last' = [NoCall EXCEPT !.op = "find", !.name = n,
                              !.ret = find(Cur, n), !.pre = SlotOf(n),
                              !.preDups = Len(dupSymDiags),
                              !.preFetched = Len(fetched),
                              !.preRefs = numReferencedSymbols,
                              !.preUndefs = undefs,
                              !.preSections = outputSections,
                              !.preSegments = outputSegments,
                              !.preQuiet = quiet, !.prePtr = symMap[n]]
    /\ UNCHANGED <<symMap, heap, dupSymDiags, fetched, numReferencedSymbols,
                   undefs, outputSections, outputSegments, inputSections,
                   syntheticSections, config, crashed, hist, first, threads,
                   quiet>>

Next ==
  \/ AddDefined
  \/ AddDefinedEager
  \/ AliasDefined
  \/ AddUndefined
  \/ AddUndefinedEager
  \/ AddCommon
  \/ AddCommonEager
  \/ AddDylib
  \/ ResolveDylib
  \/ AddDynamicLookup
  \/ AddLazyArchive
  \/ AddLazyObject
  \/ AddSynthetic
  \/ Find

Spec == Init /\ [][Next]_vars

\* ----------------------------------------------- the reference-scan phase
\* The names the scan meets.
SectStartName == <<"section$start$", "__DATA", "__foo">>
SectEndName == <<"section$end$", "__DATA", "__foo">>
SegStartName == <<"segment$start$", "__TEXT">>
SegEndName == <<"segment$end$", "__TEXT">>
DtraceName == <<"___dtrace_", "probe">>
LookupName == <<"_u">>
PlainName == <<"_g">>
DupName == <<"_d">>

ReferencedNames ==
  <<SectStartName, SectEndName, SegStartName, SegEndName, DtraceName,
    LookupName, PlainName>>

ScanNames == {ReferencedNames[i] : i \in 1..Len(ReferencedNames)} \cup {DupName}

\* The options of the link: each -undefined treatment, without -U names and
\* with -U naming a boundary name, a dtrace name and a plain name.
ScanConfigs ==
  {[undefinedSymbolTreatment |-> tr, explicitDynamicLookups |-> ex,
    deadStripDuplicates |-> FALSE] :
     tr \in {"error", "warning", "dynamic_lookup", "suppress"},
     ex \in {{}, {SectEndName, DtraceName, LookupName}}}

\* The synthetic sections of the link: none, or the one the section
\* boundary names ask for.
ScanSyntheticSections == {<<>>, << <<"__DATA", "__foo">> >>}

\* The table input parsing leaves: every referenced name was added by
\* addUndefined of objA (LookupName by a weak reference), SectStartName was
\* referenced twice more by addUndefinedEager of bcA, and DupName has a
\* strong definition in objA and in objB.
RECURSIVE ReferenceAll(_, _)
ReferenceAll(t, i) ==
  IF i > Len(ReferencedNames) THEN t
  ELSE CHOOSE r \in {ReferenceAll(x, i + 1) :
                       x \in {addUndefined(t, ReferencedNames[i], "objA",
                                           ReferencedNames[i] = LookupName).t}} : TRUE

Parsed(t) ==
  LET s1 == {ReferenceAll(t, 1)}
      s2 == {addUndefinedEager(x, SectStartName, "bcA", FALSE).t : x \in s1}
      s3 == {addUndefinedEager(x, SectStartName, "bcA", FALSE).t : x \in s2}
      s4 == {addDefined(x, DupName, "objA", IsecOf("objA"), ValueOf("objA"),
                        FALSE, FALSE, FALSE, FALSE, FALSE).t : x \in s3}
      s5 == {addDefined(x, DupName, "objB", IsecOf("objB"), ValueOf("objB"),
                        FALSE, FALSE, FALSE, FALSE, FALSE).t : x \in s4}
  IN CHOOSE r \in s5 : TRUE

ScanInit ==
  \E cfg \in ScanConfigs, ssecs \in ScanSyntheticSections :
    InitFrom(Parsed(EmptyTable(ScanNames, cfg, ssecs))) /\ Sequential

\* The places a reference is found at: a source text (the first overload)
\* or a section and an offset in it (the second).
RefSites ==
  {[kind |-> "other", source |-> "-u", isec |-> "none", offset |-> 0],
   [kind |-> "code", source |-> "", isec |-> "objA", offset |-> 8]}

\* treatUndefinedSymbol on an Undefined symbol: one the table holds, or one
\* addUndefinedEager made beside it.
TreatUndefinedSymbol ==
  \E u \in 1..Len(heap), ref \in RefSites :
    /\ ncalls < MaxCalls
    /\ heap[u].kind = "Undefined"
    /\ Do("treatUndefinedSymbol", heap[u].name,
          [NoArg EXCEPT !.sym = u, !.ref = ref.kind],
          treatUndefinedSymbol(Cur, u, ref))

\* A report: the program state it leaves, and the number of diagnostics it
\* emitted in the history.
Report(op, r) ==
  /\ ~crashed
  /\ ncalls' = ncalls + 1
  /\ undefs' = r.t.undefs
  /\ dupSymDiags' = r.t.dupSymDiags
  /\ last' = [NoCall EXCEPT !.op = op, !.preDups = Len(dupSymDiags),
                            !.preFetched = Len(fetched),
                            !.preRefs = numReferencedSymbols,
                            !.preUndefs = undefs,
                            !.preSections = outputSections,
                            !.preSegments = outputSegments,
                            !.preQuiet = quiet, !.emitted = r.emitted]
  /\ quiet' = quiet \cup {op}
  /\ UNCHANGED <<symMap, heap, fetched, numReferencedSymbols, outputSections,
                 outputSegments, inputSections, syntheticSections, config,
                 crashed, hist, first, threads>>

ReportPendingDuplicateSymbols ==
  /\ ncalls < MaxCalls
  /\ Report("reportPendingDuplicateSymbols", reportPendingDuplicateSymbols(Cur))

ReportPendingUndefinedSymbols ==
  /\ ncalls < MaxCalls
  /\ Report("reportPendingUndefinedSymbols", reportPendingUndefinedSymbols(Cur))

\* A further strong definition of DupName arrives (a file parsed late).
LateAddDefined ==
  /\ ncalls < MaxCalls
  /\ Do("addDefined", DupName, DefArg("memA", FALSE, <<FALSE, FALSE, FALSE, FALSE>>),
        addDefined(Cur, DupName, "memA", IsecOf("memA"), ValueOf("memA"), FALSE,
                   FALSE, FALSE, FALSE, FALSE))

ScanNext ==
  \/ TreatUndefinedSymbol
  \/ ReportPendingDuplicateSymbols
  \/ ReportPendingUndefinedSymbols
  \/ LateAddDefined

ScanSpec == ScanInit /\ [][ScanNext]_vars

\* ------------------------------------------- concurrent calls, step by step
\* The calls the threads make, all on one name that is not in the table.
ConcName == <<"_f">>
ConcCalls ==
  {[op |-> "addUndefined", file |-> "objA", isWeakRef |-> TRUE],
   [op |-> "addUndefined", file |-> "bcA", isWeakRef |-> FALSE],
   [op |-> "find", file |-> NullFile, isWeakRef |-> FALSE]}

\* A thread before its call: sym, wasInserted are the locals of insert and
\* the structured binding of addUndefined, tmp is a value read from the slot
\* and not yet written back, ret the pointer the call returned; sawRaw says
\* that the pointer the thread got from the table was that of a slot in
\* which no variant was constructed yet.
ThreadStart(c) ==
  [pc |-> "call", op |-> c.op, file |-> c.file, isWeakRef |-> c.isWeakRef,
   sym |-> NULL, wasInserted |-> FALSE, tmp |-> 0, flag |-> FALSE,
   ret |-> NULL, sawRaw |-> FALSE]

ConcInit ==
  /\ InitFrom(EmptyTable({ConcName}, DefaultConfig, <<>>))
  /\ threads \in [1..NumThreads -> {ThreadStart(c) : c \in ConcCalls}]

\* What a concurrent step leaves alone.
ConcUnchanged ==
  UNCHANGED <<dupSymDiags, fetched, undefs, outputSections, outputSegments,
              inputSections, syntheticSections, config, crashed, ncalls, last,
              hist, first, quiet>>

\* insert, symMap.find(accessor, name): the lookup under the bucket lock.
\* On a hit the const_accessor holds a read lock of the element, which keeps
\* no other thread from reading or writing the Symbol it points to.
InsertFind(i) ==
  /\ threads[i].pc = "call"
  /\ threads[i].op = "addUndefined"
  /\ threads' = [threads EXCEPT ![i] =
       IF symMap[ConcName] # NULL
       THEN [@ EXCEPT !.pc = "flagRead", !.sym = symMap[ConcName],
                      !.wasInserted = FALSE,
                      !.sawRaw = heap[symMap[ConcName]].kind = "Raw"]
       ELSE [@ EXCEPT !.pc = "new"]]
  /\ UNCHANGED <<symMap, heap, numReferencedSymbols>>
  /\ ConcUnchanged

\* insert, the name was not found: sym = new SymbolUnion() and
\* result = symMap.insert(accessor, {name, sym}).  The map takes the pair
\* only if the name is still absent; sym stays the new SymbolUnion either way.
InsertNew(i) ==
  /\ threads[i].pc = "new"
  /\ heap' = Append(heap, [RawSym EXCEPT !.name = ConcName])
  /\ symMap' = IF symMap[ConcName] = NULL
               THEN [symMap EXCEPT ![ConcName] = Len(heap) + 1]
               ELSE symMap
  /\ threads' = [threads EXCEPT ![i] =
       [@ EXCEPT !.pc = "flagRead", !.sym = Len(heap) + 1,
                 !.wasInserted = symMap[ConcName] = NULL]]
  /\ UNCHANGED numReferencedSymbols
  /\ ConcUnchanged

\* insert, sym->isUsedInRegularObj |= ...: the read of the flag ...
InsertFlagRead(i) ==
  /\ threads[i].pc = "flagRead"
  /\ threads' = [threads EXCEPT ![i] =
       [@ EXCEPT !.pc = "flagWrite",
                 !.flag = heap[threads[i].sym].isUsedInRegularObj]]
  /\ UNCHANGED <<symMap, heap, numReferencedSymbols>>
  /\ ConcUnchanged

\* ... and the write of it; insert returns and the accessor is released.
InsertFlagWrite(i) ==
  /\ threads[i].pc = "flagWrite"
  /\ heap' = [heap EXCEPT ![threads[i].sym].isUsedInRegularObj =
                threads[i].flag \/ FromRegularObj(threads[i].file)]
  /\ threads' = [threads EXCEPT ![i] = [@ EXCEPT !.pc = "body"]]
  /\ UNCHANGED <<symMap, numReferencedSymbols>>
  /\ ConcUnchanged

\* What a dyn_cast on the slot finds: the variant, or anything when none is
\* constructed in the storage yet.
KindsSeen(sym) ==
  IF sym.kind = "Raw" THEN {"Dylib", "Undefined", "other"} ELSE {sym.kind}

\* addUndefined after insert: the inserting thread constructs the Undefined;
\* another one references a DylibSymbol, reads the refState of an Undefined,
\* or leaves any other variant as it is.
AddUndefinedBody(i) ==
  LET th == threads[i]
      s == th.sym
      refState == IF th.isWeakRef THEN Weak ELSE Strong
  IN /\ th.pc = "body"
     /\ IF th.wasInserted
        THEN /\ heap' = replaceSymbol(Cur, s, MkUndefined(th.file, refState, FALSE)).heap
             /\ UNCHANGED numReferencedSymbols
             /\ threads' = [threads EXCEPT ![i] = [@ EXCEPT !.pc = "done", !.ret = s]]
        ELSE \E k \in KindsSeen(heap[s]) :
               CASE k = "Dylib" ->
                      /\ heap' = reference(Cur, s, refState).heap
                      /\ numReferencedSymbols' = reference(Cur, s, refState).numReferencedSymbols
                      /\ threads' = [threads EXCEPT ![i] =
                                       [@ EXCEPT !.pc = "done", !.ret = s]]
                 [] k = "Undefined" ->
                      /\ UNCHANGED <<heap, numReferencedSymbols>>
                      /\ threads' = [threads EXCEPT ![i] =
                                       [@ EXCEPT !.pc = "maxWrite",
                                                 !.tmp = heap[s].refState]]
                 [] OTHER ->
                      /\ UNCHANGED <<heap, numReferencedSymbols>>
                      /\ threads' = [threads EXCEPT ![i] =
                                       [@ EXCEPT !.pc = "done", !.ret = s]]
     /\ UNCHANGED symMap
     /\ ConcUnchanged

\* addUndefined, the write of undefined->refState = std::max(read, refState).
AddUndefinedWrite(i) ==
  LET th == threads[i]
      refState == IF th.isWeakRef THEN Weak ELSE Strong
  IN /\ th.pc = "maxWrite"
     /\ heap' = [heap EXCEPT ![th.sym].refState =
                   raiseRefState([refState |-> th.tmp], refState).refState]
     /\ threads' = [threads EXCEPT ![i] = [@ EXCEPT !.pc = "done", !.ret = th.sym]]
     /\ UNCHANGED <<symMap, numReferencedSymbols>>
     /\ ConcUnchanged

\* find: the lookup; the accessor is released when find returns the pointer.
FindLookup(i) ==
  /\ threads[i].pc = "call"
  /\ threads[i].op = "find"
  /\ threads' = [threads EXCEPT ![i] =
       [@ EXCEPT !.pc = "done", !.ret = find(Cur, ConcName),
                 !.sawRaw = /\ symMap[ConcName] # NULL
                            /\ heap[symMap[ConcName]].kind = "Raw"]]
  /\ UNCHANGED <<symMap, heap, numReferencedSymbols>>
  /\ ConcUnchanged

ConcNext ==
  \E i \in 1..NumThreads :
    \/ InsertFind(i)
    \/ InsertNew(i)
    \/ InsertFlagRead(i)
    \/ InsertFlagWrite(i)
    \/ AddUndefinedBody(i)
    \/ AddUndefinedWrite(i)
    \/ FindLookup(i)

ConcSpec == ConcInit /\ [][ConcNext]_vars

\* ------------------------------------------------------------- properties
\* The calls that go through addDefined.
DefinedOps == {"addDefined", "aliasDefined", "addSynthetic"}

\* The add* entry points.
AddOps ==
  {"addDefined", "addDefinedEager", "aliasDefined", "addUndefined",
   "addUndefinedEager", "addCommon", "addCommonEager", "addDylib",
   "resolveDylib", "addDynamicLookup", "addLazyArchive", "addLazyObject",
   "addSynthetic"}

\* The slot of the last call's name, as it is now.
LastSlot == SlotOf(last.name)

\* The slot holds the definition that file made.
Holds(sym, file) ==
  /\ sym.kind = "Defined"
  /\ sym.file = file
  /\ sym.isec = IsecOf(file)
  /\ sym.value = ValueOf(file)

\* The last call returned normally from an add* entry point.
Returned == last.op \in AddOps /\ ~crashed

\* C1. Identity stability: the pointer the first add* call on a name returned
\* is the pointer every later add* call on the name returns, the pointer find
\* returns, and the pointer the index holds for the name.
C1_IdentityStability ==
  /\ \A n \in Names : first[n] # -1 => symMap[n] = first[n]
  /\ (last.op \in AddOps \cup {"find"} /\ ~crashed /\ first[last.name] # -1)
       => last.ret = first[last.name]

\* The part of C1 about the index: the entry of a name is never removed and
\* never points to another slot.
IndexNeverRepoints ==
  \A n \in Names : first[n] # -1 => symMap[n] = first[n]

\* C2. Duplicate path: a strong addDefined from a file that is no lazy archive
\* member, on a slot that holds a strong Defined, adds exactly one record to
\* the duplicate pool and leaves the existing definition in the slot.
C2_DuplicateKeepsExisting ==
  (/\ Returned
   /\ last.op = "addDefined"
   /\ ~last.arg.weakDef
   /\ ~lazyArchiveMember(last.arg.file)
   /\ last.pre.kind = "Defined"
   /\ ~last.pre.weakDef)
  => /\ Len(dupSymDiags) = last.preDups + 1
     /\ LastSlot.kind = "Defined"
     /\ LastSlot.file = last.pre.file
     /\ LastSlot.isec = last.pre.isec
     /\ LastSlot.value = last.pre.value

\* The two calls made on a name are addDefined calls of two regular object
\* files of different priority, both with the given weakness.
TwoRegularDefs(n, weak) ==
  /\ ~hist[n].more
  /\ Len(hist[n].calls) = 2
  /\ \A i \in {1, 2} :
       /\ hist[n].calls[i].op = "addDefined"
       /\ hist[n].calls[i].arg.weakDef = weak
       /\ hist[n].calls[i].arg.file \in ObjFiles
       /\ ~lazyArchiveMember(hist[n].calls[i].arg.file)
  /\ priority(hist[n].calls[1].arg.file) # priority(hist[n].calls[2].arg.file)

\* Of the two files that defined the name, the one earlier on the command line.
PreferredFile(n) ==
  LET f1 == hist[n].calls[1].arg.file
      f2 == hist[n].calls[2].arg.file
  IN IF priority(f1) < priority(f2) THEN f1 ELSE f2

\* C3. Priority determinism, strong: two strong definitions of an absent name
\* from regular object files F and G, in either order, end with a duplicate
\* recorded and F's definition in the slot (F the one of lower priority).
C3_StrongPairHoldsPreferred ==
  \A n \in Names :
    TwoRegularDefs(n, FALSE)
      => /\ Len(dupSymDiags) > 0
         /\ Holds(SlotOf(n), PreferredFile(n))

\* C4. Priority determinism, weak: two weak definitions of an absent name from
\* regular object files F and G, in either order, end with F's definition in
\* the slot (F the one of lower priority) and nothing in the duplicate pool.
C4_WeakPairHoldsPreferred ==
  \A n \in Names :
    TwoRegularDefs(n, TRUE)
      => /\ Holds(SlotOf(n), PreferredFile(n))
         /\ SlotOf(n).weakDef
         /\ dupSymDiags = <<>>

\* C4 witness: G's weak definition came first, F's second, and the slot holds F's.
C4_Witness ==
  \E n \in Names :
    /\ TwoRegularDefs(n, TRUE)
    /\ hist[n].calls[2].arg.file = PreferredFile(n)
    /\ Holds(SlotOf(n), hist[n].calls[2].arg.file)
    /\ last.op = "addDefined"
    /\ last.pre.kind = "Defined"
    /\ last.pre.file = hist[n].calls[1].arg.file

\* C5. A strong Defined is never replaced: after any add* call on a slot that
\* held a Defined with weakDef=false, the slot holds that same definition.
C5_StrongDefinedNeverReplaced ==
  (/\ Returned
   /\ last.op \in {"addDefined", "addDefinedEager", "addCommon", "resolveDylib",
                   "addLazyArchive", "addLazyObject", "addSynthetic"}
   /\ last.pre.kind = "Defined"
   /\ ~last.pre.weakDef)
  => /\ LastSlot.kind = "Defined"
     /\ ~LastSlot.weakDef
     /\ LastSlot.file = last.pre.file
     /\ LastSlot.isec = last.pre.isec
     /\ LastSlot.value = last.pre.value

\* The rank of the candidate a call submits through addDefined.
CandidateRank(c) == getRank(c.arg.file, FALSE, c.arg.weakDef)

\* The slot holds the candidate the call submitted.
HoldsCandidate(sym, c) ==
  /\ sym.kind = "Defined"
  /\ sym.file = c.arg.file
  /\ sym.weakDef = c.arg.weakDef

\* C6. Rank order: of two candidates for an absent name, submitted through
\* addDefined in either order, with different ranks, the slot ends up holding
\* the one of lower rank.
C6_LowerRankWins ==
  \A n \in Names :
    (/\ ~hist[n].more
     /\ Len(hist[n].calls) = 2
     /\ \A i \in {1, 2} : hist[n].calls[i].op \in DefinedOps
     /\ CandidateRank(hist[n].calls[1]) # CandidateRank(hist[n].calls[2])
     /\ ~crashed)
    => LET a == hist[n].calls[1]
           b == hist[n].calls[2]
       IN /\ HoldsCandidate(SlotOf(n), a) <=> CandidateRank(a) < CandidateRank(b)
          /\ HoldsCandidate(SlotOf(n), b) <=> CandidateRank(b) < CandidateRank(a)

\* The last call was a weak addDefined on a Defined whose rank the incoming
\* rank is not below.
WeakHitKept ==
  /\ Returned
  /\ last.op \in {"addDefined", "aliasDefined"}
  /\ last.arg.weakDef
  /\ last.pre.kind = "Defined"
  /\ ~(getRank(last.arg.file, FALSE, TRUE)
         < getRank(last.pre.file, FALSE, last.pre.weakDef))

\* C7. Weak merge: a weak addDefined whose rank is not below that of the
\* Defined in the slot keeps and returns that Defined; if it is weak, its
\* privateExtern and weakDefCanBeHidden become old AND incoming and its
\* referencedDynamically and noDeadStrip old OR incoming; if it is strong, its
\* flags stay as they are.
C7_WeakMerge ==
  WeakHitKept
  => /\ last.ret = symMap[last.name]
     /\ LastSlot.kind = "Defined"
     /\ LastSlot.file = last.pre.file
     /\ LastSlot.isec = last.pre.isec
     /\ LastSlot.value = last.pre.value
     /\ LastSlot.weakDef = last.pre.weakDef
     /\ IF last.pre.weakDef
        THEN /\ LastSlot.privateExtern
                  = (last.pre.privateExtern /\ last.arg.privateExtern)
             /\ LastSlot.weakDefCanBeHidden
                  = (last.pre.weakDefCanBeHidden /\ last.arg.weakDefCanBeHidden)
             /\ LastSlot.referencedDynamically
                  = (last.pre.referencedDynamically \/ last.arg.referencedDynamically)
             /\ LastSlot.noDeadStrip
                  = (last.pre.noDeadStrip \/ last.arg.noDeadStrip)
        ELSE /\ LastSlot.privateExtern = last.pre.privateExtern
             /\ LastSlot.weakDefCanBeHidden = last.pre.weakDefCanBeHidden
             /\ LastSlot.referencedDynamically = last.pre.referencedDynamically
             /\ LastSlot.noDeadStrip = last.pre.noDeadStrip

\* C7 witness: a weak definition was merged into a weak Defined and the merge
\* cleared privateExtern and set noDeadStrip.
C7_Witness ==
  /\ WeakHitKept
  /\ last.pre.weakDef
  /\ last.pre.privateExtern /\ ~last.arg.privateExtern
  /\ ~last.pre.noDeadStrip /\ last.arg.noDeadStrip
  /\ ~LastSlot.privateExtern
  /\ LastSlot.noDeadStrip

\* C8. Monotone refState: while only addUndefined calls have been made on a
\* name, its slot is an Undefined whose refState is the strongest state asked
\* for; and an addUndefined call on an Undefined or DylibSymbol slot leaves
\* the variant and does not lower its refState.
C8_MonotoneRefState ==
  /\ \A n \in Names :
       (hist[n].undefOnly /\ first[n] # -1)
         => /\ SlotOf(n).kind = "Undefined"
            /\ SlotOf(n).refState = hist[n].maxReq
  /\ (/\ Returned
      /\ last.op = "addUndefined"
      /\ last.pre.kind \in {"Undefined", "Dylib"})
     => /\ LastSlot.kind = last.pre.kind
        /\ LastSlot.refState >= last.pre.refState
        /\ LastSlot.refState >= (IF last.arg.isWeakRef THEN Weak ELSE Strong)

\* C8 witness: a weak reference arrived after a strong one and the slot is
\* still a strongly referenced Undefined.
C8_Witness ==
  /\ Returned
  /\ last.op = "addUndefined"
  /\ last.arg.isWeakRef
  /\ hist[last.name].undefOnly
  /\ last.pre.kind = "Undefined"
  /\ last.pre.refState = Strong
  /\ LastSlot.refState = Strong

\* C9. Sticky regular-obj flag: a slot whose isUsedInRegularObj is true keeps
\* it true in every step.
C9_StickyUsedInRegularObj ==
  [][\A s \in 1..Len(heap) :
       heap[s].isUsedInRegularObj => heap'[s].isUsedInRegularObj]_vars

\* C9 witness: the slot had the flag, the call came from a file that is no
\* object file and replaced the variant in place, and the flag is still set.
C9_Witness ==
  /\ Returned
  /\ last.pre.isUsedInRegularObj
  /\ ~FromRegularObj(last.arg.file)
  /\ last.pre.kind \notin {"Absent", LastSlot.kind}
  /\ LastSlot.isUsedInRegularObj

\* C10. Lazy fetch exactness: an addUndefined on a slot that holds a
\* LazyArchive makes exactly one fetch call, for the archive and the archive
\* symbol of the slot, and leaves the slot a Defined.
C10_UndefinedFetchesLazyArchive ==
  (/\ Returned
   /\ last.op = "addUndefined"
   /\ last.pre.kind = "LazyArchive")
  => /\ Len(fetched) = last.preFetched + 1
     /\ fetched[Len(fetched)] = <<last.pre.file, last.pre.cookie>>
     /\ LastSlot.kind = "Defined"

\* The numReferencedSymbols an unreference of the DylibSymbol sym leaves.
RefsAfterUnreference(refs, sym) ==
  IF sym.refState > Unreferenced /\ sym.file # NullFile
  THEN [refs EXCEPT ![sym.file] = @ - 1]
  ELSE refs

\* The last call, an addDefined on a DylibSymbol, made the slot a Defined of
\* the incoming file, with overridesWeakDef set exactly for a strong
\* definition over a weak-def DylibSymbol, unreferenced the DylibSymbol and
\* recorded no duplicate.
DefinedWonOverDylib ==
  /\ LastSlot.kind = "Defined"
  /\ LastSlot.file = last.arg.file
  /\ LastSlot.weakDef = last.arg.weakDef
  /\ LastSlot.overridesWeakDef = (~last.arg.weakDef /\ last.pre.weakDef)
  /\ numReferencedSymbols = RefsAfterUnreference(last.preRefs, last.pre)
  /\ Len(dupSymDiags) = last.preDups

\* The last call was an addDefined that found a DylibSymbol in the slot.
DefinedHitDylib ==
  /\ Returned
  /\ last.op = "addDefined"
  /\ last.pre.kind = "Dylib"

\* C11 as stated. Definition over dylib: an addDefined on a slot holding a
\* DylibSymbol, from any file (regular object, lazy archive member, bitcode),
\* makes the slot a Defined of the incoming file, sets overridesWeakDef
\* exactly when the incoming is non-weak and the DylibSymbol weak-def,
\* unreferences the DylibSymbol and records no duplicate.
C11_DefinedOverDylib ==
  DefinedHitDylib => DefinedWonOverDylib

\* C11 amended. The incoming definition wins as stated when its file is no
\* lazy archive member; an addDefined from a lazy archive member leaves the
\* DylibSymbol in the slot, still referenced, and records no duplicate.
C11_DefinedOverDylibUnlessLazy ==
  DefinedHitDylib
  => IF lazyArchiveMember(last.arg.file)
     THEN /\ LastSlot = MarkUsed(last.pre, last.arg.file)
          /\ numReferencedSymbols = last.preRefs
          /\ Len(dupSymDiags) = last.preDups
     ELSE DefinedWonOverDylib

\* C11 witness: a strong definition from a regular object file replaced a
\* referenced weak-def DylibSymbol of a dylib, whose count went down by one.
C11_Witness ==
  /\ DefinedHitDylib
  /\ ~lazyArchiveMember(last.arg.file)
  /\ ~last.arg.weakDef
  /\ last.pre.weakDef
  /\ last.pre.refState > Unreferenced
  /\ last.pre.file \in DylibFiles
  /\ LastSlot.kind = "Defined"
  /\ LastSlot.overridesWeakDef
  /\ numReferencedSymbols[last.pre.file] = last.preRefs[last.pre.file] - 1

\* What C17 compares of a slot: the variant, the owning file and the flags.
SlotContents(sym) ==
  <<sym.kind, sym.file, sym.privateExtern, sym.weakDefCanBeHidden,
    sym.referencedDynamically, sym.noDeadStrip>>

\* The table an addDefined call with the recorded inputs leaves.
Replayed(t, n, c) ==
  addDefined(t, n, c.arg.file, IsecOf(c.arg.file), ValueOf(c.arg.file),
             c.arg.weakDef, c.arg.privateExtern, c.arg.referencedDynamically,
             c.arg.noDeadStrip, c.arg.weakDefCanBeHidden).t

\* The slot of the name after the two calls, replayed one after the other
\* on an empty table in ascending priority of their files.
ReplayedAscending(n, c1, c2) ==
  LET a == IF priority(c1.arg.file) < priority(c2.arg.file) THEN c1 ELSE c2
      b == IF priority(c1.arg.file) < priority(c2.arg.file) THEN c2 ELSE c1
      t == Replayed(Replayed(EmptyTable(Names, DefaultConfig, <<>>), n, a), n, b)
  IN t.heap[t.symMap[n]]

\* C17. Arrival-order independence: after addDefined calls on one name from
\* files of different priorities (here two, in either order), the variant,
\* the file and the flags of the slot are those the calls leave when they
\* are replayed in ascending priority.
C17_ArrivalOrderIndependence ==
  \A n \in Names :
    (/\ ~crashed
     /\ ~hist[n].more
     /\ Len(hist[n].calls) = 2
     /\ \A i \in {1, 2} : hist[n].calls[i].op = "addDefined"
     /\ priority(hist[n].calls[1].arg.file) # priority(hist[n].calls[2].arg.file))
    => SlotContents(SlotOf(n))
         = SlotContents(ReplayedAscending(n, hist[n].calls[1], hist[n].calls[2]))

\* C20. Strong definition versus lazy archive member: a strong addDefined
\* from a lazy archive member on a slot that holds a strong Defined records
\* no duplicate; the existing definition stays if its file is no lazy
\* archive member or is a bitcode file; if both files are lazy archive
\* members the slot ends with the one of the lower priority number.
C20_StrongVersusLazyMember ==
  (/\ Returned
   /\ last.op = "addDefined"
   /\ ~last.arg.weakDef
   /\ lazyArchiveMember(last.arg.file)
   /\ last.pre.kind = "Defined"
   /\ ~last.pre.weakDef)
  => /\ Len(dupSymDiags) = last.preDups
     /\ LastSlot.kind = "Defined"
     /\ IF lazyArchiveMember(last.pre.file) /\ ~isaBitcodeFile(last.pre.file)
        THEN LastSlot.file =
               (IF priority(last.arg.file) < priority(last.pre.file)
                THEN last.arg.file ELSE last.pre.file)
        ELSE LastSlot.file = last.pre.file

\* The part of C20 the code keeps: a strong Defined of a file that is
\* neither a lazy archive member nor a bitcode file stays, and nothing is
\* recorded.
StrongRegularKeptFromLazyMember ==
  (/\ Returned
   /\ last.op = "addDefined"
   /\ ~last.arg.weakDef
   /\ lazyArchiveMember(last.arg.file)
   /\ last.pre.kind = "Defined"
   /\ ~last.pre.weakDef
   /\ ~lazyArchiveMember(last.pre.file)
   /\ ~isaBitcodeFile(last.pre.file))
  => /\ Len(dupSymDiags) = last.preDups
     /\ LastSlot = MarkUsed(last.pre, last.arg.file)

\* ---------------------------------------------- properties of the scan
\* The last call was a treatUndefinedSymbol that returned.
Treated == last.op = "treatUndefinedSymbol" /\ ~crashed

\* The name starts with one of the four boundary prefixes.
SectionPrefixes == {"section$start$", "section$end$"}
SegmentPrefixes == {"segment$start$", "segment$end$"}
IsBoundaryName(name) == Head(name) \in SectionPrefixes \cup SegmentPrefixes

\* The last call, a treatUndefinedSymbol on a boundary name, found an
\* Undefined in the slot of the name.
TreatedBoundaryOnUndefined ==
  /\ Treated
  /\ IsBoundaryName(last.name)
  /\ last.pre.kind = "Undefined"

\* The boundary lists of the output sections are those before the last call,
\* but for pointer s appended to the start or end list (which) of the one
\* output section with the given names, which may be new.
SectionListsAfter(segName, sectName, which, s) ==
  LET named == SectionsNamed(Cur, 1, segName, sectName)
      old(i) == IF i <= Len(last.preSections) THEN last.preSections[i]
                ELSE [segname |-> segName, name |-> sectName,
                      sectionStartSymbols |-> <<>>, sectionEndSymbols |-> <<>>]
  IN /\ Cardinality(named) = 1
     /\ Len(outputSections) \in {Len(last.preSections), Len(last.preSections) + 1}
     /\ \A i \in 1..Len(outputSections) :
          IF i \in named
          THEN outputSections[i] =
                 (IF which = "Start"
                  THEN [old(i) EXCEPT !.sectionStartSymbols = Append(@, s)]
                  ELSE [old(i) EXCEPT !.sectionEndSymbols = Append(@, s)])
          ELSE i <= Len(last.preSections) /\ outputSections[i] = last.preSections[i]
     /\ outputSegments = last.preSegments

\* The same for the output segments.
SegmentListsAfter(segName, which, s) ==
  LET named == {i \in 1..Len(outputSegments) : outputSegments[i].name = segName}
      old(i) == IF i <= Len(last.preSegments) THEN last.preSegments[i]
                ELSE [name |-> segName, segmentStartSymbols |-> <<>>,
                      segmentEndSymbols |-> <<>>]
  IN /\ Cardinality(named) = 1
     /\ Len(outputSegments) \in {Len(last.preSegments), Len(last.preSegments) + 1}
     /\ \A i \in 1..Len(outputSegments) :
          IF i \in named
          THEN outputSegments[i] =
                 (IF which = "Start"
                  THEN [old(i) EXCEPT !.segmentStartSymbols = Append(@, s)]
                  ELSE [old(i) EXCEPT !.segmentEndSymbols = Append(@, s)])
          ELSE i <= Len(last.preSegments) /\ outputSegments[i] = last.preSegments[i]
     /\ outputSections = last.preSections

\* The boundary lists after a treatUndefinedSymbol on the boundary name.
BoundaryListsAfter(name, s) ==
  CASE Head(name) = "section$start$" -> SectionListsAfter(name[2], name[3], "Start", s)
    [] Head(name) = "section$end$" -> SectionListsAfter(name[2], name[3], "End", s)
    [] Head(name) = "segment$start$" -> SegmentListsAfter(name[2], "Start", s)
    [] Head(name) = "segment$end$" -> SegmentListsAfter(name[2], "End", s)

\* C12. Boundary recovery: treatUndefinedSymbol on an Undefined slot with a
\* boundary name replaces the slot in place with a Defined with file=null,
\* value=-1, privateExtern=true, includeInSymtab=false, appends the slot to
\* the start or end list of the named output section or segment, and adds
\* nothing to the undefined map or the duplicate pool.
C12_BoundaryRecovery ==
  TreatedBoundaryOnUndefined
  => /\ symMap[last.name] = last.prePtr
     /\ LastSlot.kind = "Defined"
     /\ LastSlot.file = NullFile
     /\ LastSlot.value = -1
     /\ LastSlot.privateExtern
     /\ ~LastSlot.includeInSymtab
     /\ BoundaryListsAfter(last.name, last.prePtr)
     /\ undefs = last.preUndefs
     /\ Len(dupSymDiags) = last.preDups

\* C12 witness: a section$end$ name was treated when its output section did
\* not exist; the section was made and its end list holds the slot, now a
\* Defined.
C12_Witness ==
  /\ TreatedBoundaryOnUndefined
  /\ last.name = SectEndName
  /\ SectionsNamed([outputSections |-> last.preSections], 1, "__DATA", "__foo") = {}
  /\ \E i \in 1..Len(outputSections) :
       /\ outputSections[i].segname = "__DATA"
       /\ outputSections[i].name = "__foo"
       /\ outputSections[i].sectionEndSymbols = <<symMap[last.name]>>
  /\ LastSlot.kind = "Defined"
  /\ LastSlot.value = -1

\* C13. Boundary idempotence: every treatUndefinedSymbol call on an undefined
\* named section$start$SEG$SECT appends one synthetic boundary symbol to the
\* start list of the one OutputSection (SEG,SECT), touching no other list,
\* and there are never two output sections of the same names.
C13_BoundaryIdempotence ==
  /\ \A i, j \in 1..Len(outputSections) :
       (/\ outputSections[i].segname = outputSections[j].segname
        /\ outputSections[i].name = outputSections[j].name) => i = j
  /\ (Treated /\ Head(last.name) = "section$start$")
     => /\ SectionListsAfter(last.name[2], last.name[3], "Start", symMap[last.name])
        /\ LastSlot.kind = "Defined"
        /\ LastSlot.file = NullFile
        /\ LastSlot.value = -1

\* C13 witness: three undefineds named section$start$__DATA$__foo were
\* treated, each time an input section was made for the name, and the start
\* list of the one output section (__DATA,__foo) has the three entries.
C13_Witness ==
  /\ Treated
  /\ last.name = SectStartName
  /\ Len(inputSections) = 3
  /\ \E i \in 1..Len(outputSections) :
       /\ outputSections[i].segname = "__DATA"
       /\ outputSections[i].name = "__foo"
       /\ Len(outputSections[i].sectionStartSymbols) = 3
  /\ Len(outputSections) = 1

\* The report functions.
ReportOps == {"reportPendingDuplicateSymbols", "reportPendingUndefinedSymbols"}

\* C14. Report idempotence: a report function called again, with no add* or
\* treatUndefinedSymbol call since its last call, emits no diagnostic.
C14_ReportIdempotence ==
  (last.op \in ReportOps /\ last.op \in last.preQuiet) => last.emitted = 0

\* The half of C14 that is about reportPendingUndefinedSymbols alone.
UndefinedReportIdempotent ==
  /\ last.op = "reportPendingUndefinedSymbols" => undefs = <<>>
  /\ (last.op = "reportPendingUndefinedSymbols" /\ last.op \in last.preQuiet)
       => last.emitted = 0

\* The recovery rules in the order the claim gives, and the first of them
\* that matches the name under the options (0: none).
FirstRule(name, cfg) ==
  CASE IsBoundaryName(name) -> 1
    [] Head(name) = "___dtrace_" -> 2
    [] name \in cfg.explicitDynamicLookups -> 3
    [] cfg.undefinedSymbolTreatment \in {"dynamic_lookup", "suppress"} -> 4
    [] cfg.undefinedSymbolTreatment = "warning" -> 5
    [] OTHER -> 0

\* The number of reference places the undefined map holds.
RECURSIVE TotalRefs(_)
TotalRefs(u) ==
  IF u = <<>> THEN 0
  ELSE Len(Head(u).codeReferences) + Len(Head(u).otherReferences)
         + TotalRefs(Tail(u))

\* The undefined map is the one before the last call with one reference
\* place more, in the entry of the treated symbol, of the kind of the call.
ReferenceRecorded ==
  /\ TotalRefs(undefs) = TotalRefs(last.preUndefs) + 1
  /\ \A i \in 1..Len(last.preUndefs) :
       /\ i <= Len(undefs)
       /\ undefs[i].sym = last.preUndefs[i].sym
       /\ undefs[i].sym # last.arg.sym => undefs[i] = last.preUndefs[i]
  /\ \E i \in 1..Len(undefs) :
       /\ undefs[i].sym = last.arg.sym
       /\ \A j \in 1..Len(undefs) : undefs[j].sym = last.arg.sym => j = i
       /\ IF last.arg.ref = "other"
          THEN /\ undefs[i].otherReferences # <<>>
               /\ i <= Len(last.preUndefs)
                    => undefs[i].codeReferences = last.preUndefs[i].codeReferences
          ELSE /\ undefs[i].codeReferences # <<>>
               /\ i <= Len(last.preUndefs)
                    => undefs[i].otherReferences = last.preUndefs[i].otherReferences

\* The slot of the last call's name is a dynamic-lookup DylibSymbol.
DynamicLookupInstalled == LastSlot.kind = "Dylib" /\ LastSlot.file = NullFile

\* C19. Undefined recovery order: a treatUndefinedSymbol on an Undefined slot
\* is decided by the first matching rule of: boundary prefix, ___dtrace_
\* prefix, -U name, treatment dynamic_lookup or suppress, treatment warning.
\* The reference is recorded in the undefined map exactly when none of the
\* first four matches; the slot becomes a dynamic-lookup DylibSymbol exactly
\* under the third, fourth and fifth.
C19_RecoveryOrder ==
  (Treated /\ last.pre.kind = "Undefined")
  => LET rule == FirstRule(last.name, config)
     IN /\ IF rule \in {5, 0} THEN ReferenceRecorded
                              ELSE undefs = last.preUndefs
        /\ DynamicLookupInstalled <=> rule \in {3, 4, 5}
        /\ rule = 1 => LastSlot.kind = "Defined"
        /\ rule \in {2, 0} => LastSlot = last.pre

\* C19 witness: under the warning treatment a name that no earlier rule
\* matches was treated; the dynamic lookup is installed and the reference
\* is in the map.
C19_Witness ==
  /\ Treated
  /\ last.pre.kind = "Undefined"
  /\ FirstRule(last.name, config) = 5
  /\ config.explicitDynamicLookups # {}
  /\ DynamicLookupInstalled
  /\ ReferenceRecorded
  /\ undefs # <<>>

\* A dtrace name that is also a -U name was treated under a treatment that
\* installs dynamic lookups: the dtrace rule came first and left the slot.
DtraceRuleFirst ==
  /\ Treated
  /\ last.name = DtraceName
  /\ last.name \in config.explicitDynamicLookups
  /\ config.undefinedSymbolTreatment = "suppress"
  /\ LastSlot.kind = "Undefined"
  /\ undefs = last.preUndefs

\* ------------------------------------------- properties of concurrent calls
\* The threads that call addUndefined, and so insert.
Inserters == {i \in DOMAIN threads : threads[i].op = "addUndefined"}

\* insert has returned to the thread.
InsertReturned(i) == threads[i].pc \in {"body", "maxWrite", "done"}

\* The thread is between its index lookup and its last access to the slot.
InSlot(i) ==
  threads[i].pc \in {"new", "flagRead", "flagWrite", "body", "maxWrite"}

AllDone == threads # <<>> /\ \A i \in DOMAIN threads : threads[i].pc = "done"

\* C15. Atomic get-or-create: of the threads that called insert for the
\* absent name concurrently, at most one gets wasInserted = TRUE, exactly one
\* once all have returned, and every one of them gets the same slot pointer,
\* the one stored in the index for the name.
C15_AtomicGetOrCreate ==
  LET back == {i \in Inserters : InsertReturned(i)}
      won == {i \in back : threads[i].wasInserted}
  IN /\ Cardinality(won) <= 1
     /\ (back # {} /\ back = Inserters) => Cardinality(won) = 1
     /\ \A i \in back : threads[i].sym = symMap[ConcName]

\* The part of C15 that the code keeps: one thread at most inserts the name.
OneInserter ==
  Cardinality({i \in Inserters : InsertReturned(i) /\ threads[i].wasInserted}) <= 1

\* Two inserts of the absent name have returned different pointers.
InsertRaceLost ==
  \E i, j \in Inserters :
    /\ InsertReturned(i) /\ InsertReturned(j)
    /\ threads[i].sym # threads[j].sym

\* C16. Publication safety: no slot is reachable through the index before
\* its first variant is constructed, and no thread that got a slot pointer
\* from the index got that of a slot without a constructed variant.
C16_PublicationSafety ==
  /\ \A n \in DOMAIN symMap :
       symMap[n] # NULL => heap[symMap[n]].kind # "Raw"
  /\ \A i \in DOMAIN threads : ~threads[i].sawRaw

\* A lookup has returned the pointer of a slot with no variant in it.
RawSlotObserved == \E i \in DOMAIN threads : threads[i].sawRaw

\* The table after the calls of the threads, made one after the other on an
\* empty table in the order o, from its k-th call on.
RECURSIVE ReplayCalls(_, _, _)
ReplayCalls(t, o, k) ==
  IF k > NumThreads THEN t
  ELSE LET c == threads[o[k]]
       IN ReplayCalls(IF c.op = "addUndefined"
                      THEN addUndefined(t, ConcName, c.file, c.isWeakRef).t
                      ELSE t, o, k + 1)

\* The slots of the name that the sequential orders of the calls end with.
SequentialOutcomes ==
  LET orders == {o \in [1..NumThreads -> 1..NumThreads] :
                   \A i, j \in 1..NumThreads : i # j => o[i] # o[j]}
      slot(t) == IF t.symMap[ConcName] = NULL THEN AbsentSym
                 ELSE t.heap[t.symMap[ConcName]]
  IN {slot(ReplayCalls(EmptyTable({ConcName}, DefaultConfig, <<>>), o, 1)) :
        o \in orders}

\* C18. Per-slot serialization: no two add* calls on the name are between
\* their index lookup and their last access to the slot at the same time, and
\* when all calls have returned the slot of the name is one that some
\* sequential order of the same calls produces (a weak and a strong
\* addUndefined end with refState Strong).
C18_PerSlotSerialization ==
  /\ \A i, j \in Inserters : i # j => ~(InSlot(i) /\ InSlot(j))
  /\ AllDone => SlotOf(ConcName) \in SequentialOutcomes

\* All calls have returned, a strong reference was asked for, and the slot
\* the index holds is an Undefined with a weaker refState.
StrongReferenceLost ==
  /\ AllDone
  /\ \E i \in Inserters : ~threads[i].isWeakRef
  /\ SlotOf(ConcName).kind = "Undefined"
  /\ SlotOf(ConcName).refState < Strong

\* ------------------------------------------ properties of common symbols
\* C21. Definition over common: an addDefined call that finds a CommonSymbol
\* in the slot, whatever the lazy-archive-member flags and priorities of the
\* two files, leaves the incoming Defined in the slot and returns a non-null
\* pointer to that slot.
C21_DefinedOverCommon ==
  (last.op = "addDefined" /\ last.pre.kind = "Common")
  => /\ ~crashed
     /\ last.ret # NULL
     /\ last.ret = symMap[last.name]
     /\ Holds(LastSlot, last.arg.file)

\* The part of C21 the code keeps: the incoming Defined replaces the common
\* unless both files are lazy archive members and the incoming one has the
\* lower priority number.
DefinedOverCommonUnlessLazyPair ==
  (/\ last.op = "addDefined"
   /\ last.pre.kind = "Common"
   /\ ~(/\ lazyArchiveMember(last.pre.file)
        /\ lazyArchiveMember(last.arg.file)
        /\ priority(last.arg.file) < priority(last.pre.file)))
  => /\ ~crashed
     /\ last.ret = symMap[last.name]
     /\ Holds(LastSlot, last.arg.file)

\* An addDefined call on a CommonSymbol returned the null pointer and left
\* the common in the slot.
DefinedLostToCommon ==
  /\ last.op = "addDefined"
  /\ last.pre.kind = "Common"
  /\ ~crashed
  /\ last.ret = NULL
  /\ LastSlot.kind = "Common"

\* The larger of two sizes.
LargerSize(a, b) == IF a < b THEN b ELSE a

\* C22. Common merge: after addCommon calls on a name (here two, on an
\* empty table) the slot is a CommonSymbol of the largest size among the
\* calls; when the sizes are equal and both files are lazy archive members
\* the slot holds the common of the file with the lower priority number.
C22_CommonMerge ==
  \A n \in Names :
    (/\ ~crashed
     /\ ~hist[n].more
     /\ Len(hist[n].calls) = 2
     /\ \A i \in {1, 2} : hist[n].calls[i].op = "addCommon")
    => LET a == hist[n].calls[1].arg
           b == hist[n].calls[2].arg
       IN /\ SlotOf(n).kind = "Common"
          /\ SlotOf(n).size = LargerSize(a.size, b.size)
          /\ (/\ a.size = b.size
              /\ lazyArchiveMember(a.file)
              /\ lazyArchiveMember(b.file))
             => SlotOf(n).file = (IF priority(a.file) < priority(b.file)
                                  THEN a.file ELSE b.file)

\* The part of C22 the code keeps: when the two files are not both lazy
\* archive members, an addCommon call on a CommonSymbol leaves the larger
\* size in the slot.
LargestCommonUnlessLazyPair ==
  (/\ Returned
   /\ last.op = "addCommon"
   /\ last.pre.kind = "Common"
   /\ ~(lazyArchiveMember(last.pre.file) /\ lazyArchiveMember(last.arg.file)))
  => /\ LastSlot.kind = "Common"
     /\ LastSlot.size = LargerSize(last.pre.size, last.arg.size)

\* A larger common from a lazy archive member of lower priority number was
\* dropped for a smaller one.
LargerCommonDropped ==
  /\ Returned
  /\ last.op = "addCommon"
  /\ last.pre.kind = "Common"
  /\ last.arg.size > last.pre.size
  /\ LastSlot.size = last.pre.size

\* C23. Common versus definition: an addCommon call that finds a Defined in
\* the slot keeps it, except when both the Defined's file and the incoming
\* file are lazy archive members and the incoming file has the lower
\* priority number: then the slot is replaced by the CommonSymbol.
C23_CommonVersusDefined ==
  (Returned /\ last.op = "addCommon" /\ last.pre.kind = "Defined")
  => IF /\ lazyArchiveMember(last.pre.file)
        /\ lazyArchiveMember(last.arg.file)
        /\ priority(last.arg.file) < priority(last.pre.file)
     THEN /\ LastSlot.kind = "Common"
          /\ LastSlot.file = last.arg.file
          /\ LastSlot.size = last.arg.size
     ELSE LastSlot = MarkUsed(last.pre, last.arg.file)

\* The part of C23 the code keeps: a Defined whose file is no lazy archive
\* member stays, and a lazy archive member of lower priority number replaces
\* the Defined of another lazy archive member.
CommonVersusRegularDefined ==
  (Returned /\ last.op = "addCommon" /\ last.pre.kind = "Defined")
  => /\ ~lazyArchiveMember(last.pre.file)
          => LastSlot = MarkUsed(last.pre, last.arg.file)
     /\ (/\ lazyArchiveMember(last.pre.file)
         /\ lazyArchiveMember(last.arg.file)
         /\ priority(last.arg.file) < priority(last.pre.file))
          => LastSlot.kind = "Common" /\ LastSlot.file = last.arg.file

\* A common from a file that is no lazy archive member replaced the Defined
\* of a lazy archive member.
RegularCommonReplacedDefined ==
  /\ Returned
  /\ last.op = "addCommon"
  /\ last.pre.kind = "Defined"
  /\ lazyArchiveMember(last.pre.file)
  /\ ~lazyArchiveMember(last.arg.file)
  /\ LastSlot.kind = "Common"

\* ----------------------------------------------- properties of resolveDylib
\* The calls that go through resolveDylib.
ResolveOps == {"resolveDylib", "addDynamicLookup"}

\* C24. resolveDylib on a name that is in the table replaces the slot with
\* the incoming DylibSymbol exactly when the slot is an Undefined, or a
\* weak-def DylibSymbol and the incoming is not weak, or a dynamic-lookup
\* DylibSymbol (null file) and the incoming has a dylib; the new DylibSymbol
\* has the refState the slot had.  Otherwise the slot keeps its variant and
\* contents, but that a non-weak Defined gets overridesWeakDef when the
\* incoming is weak-def.
C24_ResolveDylibHit ==
  (Returned /\ last.op \in ResolveOps /\ last.pre.kind # "Absent")
  => LET old == last.pre
         in == last.arg
         replaced ==
           \/ old.kind = "Undefined"
           \/ old.kind = "Dylib" /\ old.weakDef /\ ~in.weakDef
           \/ old.kind = "Dylib" /\ old.file = NullFile /\ in.file # NullFile
         kept == MarkUsed(old, in.file)
     IN IF replaced
        THEN /\ LastSlot.kind = "Dylib"
             /\ LastSlot.file = in.file
             /\ LastSlot.weakDef = in.weakDef
             /\ LastSlot.refState = old.refState
        ELSE IF old.kind = "Defined" /\ ~old.weakDef /\ in.weakDef
        THEN LastSlot = [kept EXCEPT !.overridesWeakDef = TRUE]
        ELSE LastSlot = kept

\* A referenced weak-def DylibSymbol was replaced by a non-weak one that is
\* referenced as much.
C24_Witness ==
  /\ Returned
  /\ last.op = "resolveDylib"
  /\ last.pre.kind = "Dylib"
  /\ last.pre.weakDef
  /\ last.pre.refState = Strong
  /\ ~last.arg.weakDef
  /\ LastSlot.kind = "Dylib"
  /\ ~LastSlot.weakDef
  /\ LastSlot.refState = Strong

\* Further cases of C24 that are reached: a dynamic-lookup symbol replaced by
\* one of a dylib, an Undefined replaced, a Defined marked, a lazy symbol kept.
DynamicLookupResolved ==
  /\ Returned
  /\ last.op = "resolveDylib"
  /\ last.pre.kind = "Dylib"
  /\ last.pre.file = NullFile
  /\ LastSlot.file \in DylibFiles

UndefinedResolved ==
  /\ Returned
  /\ last.op \in ResolveOps
  /\ last.pre.kind = "Undefined"
  /\ last.pre.refState = Weak
  /\ LastSlot.kind = "Dylib"
  /\ LastSlot.refState = Weak

DefinedOverridesWeakDylib ==
  /\ Returned
  /\ last.op = "resolveDylib"
  /\ last.pre.kind = "Defined"
  /\ ~last.pre.overridesWeakDef
  /\ LastSlot.kind = "Defined"
  /\ LastSlot.overridesWeakDef

LazyKeptFromDylib ==
  /\ Returned
  /\ last.op \in ResolveOps
  /\ last.pre.kind \in {"LazyArchive", "LazyObject", "Common"}
  /\ LastSlot.kind = last.pre.kind

\* ------------------------------------------------ properties of lazy symbols
\* The entry points that add a lazy symbol, and the variant each makes.
LazyOps == {"addLazyArchive", "addLazyObject"}
LazyKindOf(op) == IF op = "addLazyArchive" THEN "LazyArchive" ELSE "LazyObject"

\* The last call made exactly one fetch / extract call, for its file (and
\* archive symbol).
FetchedOnce ==
  /\ Len(fetched) = last.preFetched + 1
  /\ fetched[Len(fetched)] = <<last.arg.file, last.arg.cookie>>

\* C25. addLazyArchive and addLazyObject on a name that is in the table: an
\* Undefined slot makes exactly one fetch / extract call; so does a weak-def
\* DylibSymbol whose refState is Weak or Strong, and one that is Unreferenced
\* is overwritten by the lazy variant with no fetch; on every other variant
\* the slot is left as it is and no fetch is made.
C25_LazyOnHit ==
  (Returned /\ last.op \in LazyOps /\ last.pre.kind # "Absent")
  => LET old == last.pre
     IN IF old.kind = "Undefined"
        THEN FetchedOnce
        ELSE IF old.kind = "Dylib" /\ old.weakDef
        THEN (IF old.refState \in {Weak, Strong}
              THEN FetchedOnce
              ELSE /\ Len(fetched) = last.preFetched
                   /\ LastSlot.kind = LazyKindOf(last.op)
                   /\ LastSlot.file = last.arg.file)
        ELSE /\ Len(fetched) = last.preFetched
             /\ LastSlot = MarkUsed(old, last.arg.file)

\* An addLazyArchive call found a referenced weak-def DylibSymbol and
\* fetched the member.
C25_Witness ==
  /\ Returned
  /\ last.op = "addLazyArchive"
  /\ last.pre.kind = "Dylib"
  /\ last.pre.weakDef
  /\ last.pre.refState # Unreferenced
  /\ FetchedOnce

\* Further cases of C25 that are reached.
LazyObjectExtractedForUndefined ==
  /\ Returned
  /\ last.op = "addLazyObject"
  /\ last.pre.kind = "Undefined"
  /\ FetchedOnce

LazyOverwroteUnreferencedDylib ==
  /\ Returned
  /\ last.op \in LazyOps
  /\ last.pre.kind = "Dylib"
  /\ last.pre.weakDef
  /\ last.pre.refState = Unreferenced
  /\ LastSlot.kind = LazyKindOf(last.op)
  /\ Len(fetched) = last.preFetched

LazyLeftOtherVariant ==
  /\ Returned
  /\ last.op \in LazyOps
  /\ last.pre.kind \in {"Defined", "Common", "LazyArchive", "LazyObject"}
  /\ Len(fetched) = last.preFetched

\* ------------------------------------------------- properties of null files
\* The entry points C26 names, and aliasDefined, which goes through
\* addDefined.
NullFileOps == {"addDefined", "aliasDefined", "addSynthetic", "addCommon"}

\* C26. Null-file safety: no call of addDefined, addSynthetic or addCommon
\* reads a field through a null file pointer or writes through a null
\* result, on any table the entry points can build: the call returns.
C26_NullFileSafety == last.op \in NullFileOps => ~crashed

\* The cases C26 names.  addSynthetic on a DylibSymbol died reading
\* file->lazyArchiveMember through its null file.
SyntheticDiedOnDylib ==
  /\ crashed
  /\ last.op = "addSynthetic"
  /\ last.pre.kind = "Dylib"

\* addSynthetic on the CommonSymbol of a lazy archive member died the same
\* way.
SyntheticDiedOnCommon ==
  /\ crashed
  /\ last.op = "addSynthetic"
  /\ last.pre.kind = "Common"

\* addCommon on a synthetic Defined died reading the Defined's null file.
CommonDiedOnSynthetic ==
  /\ crashed
  /\ last.op = "addCommon"
  /\ last.pre.kind = "Defined"
  /\ last.pre.file = NullFile

\* addSynthetic on the CommonSymbol of a file that is no lazy archive member
\* returns: the incoming file is only read after the common's file is found
\* to be one.
SyntheticOverRegularCommon ==
  (/\ last.op = "addSynthetic"
   /\ last.pre.kind = "Common"
   /\ ~lazyArchiveMember(last.pre.file))
  => ~crashed /\ LastSlot.kind = "Defined" /\ LastSlot.file = NullFile

\* ------------------------------------- properties of recovery and duplicates
\* C27. Recovery adds no duplicate diagnostics: no treatUndefinedSymbol call
\* appends a record to the duplicate-symbol pool, also not the second call
\* for a boundary name whose slot the first call made a synthetic Defined.
C27_RecoveryAddsNoDuplicates ==
  last.op = "treatUndefinedSymbol" => Len(dupSymDiags) = last.preDups

\* The part of C27 the code keeps: a treatUndefinedSymbol call that finds an
\* Undefined (or a DylibSymbol made by an earlier warning recovery) in the
\* slot of the name records no duplicate.
FirstRecoveryAddsNoDuplicate ==
  (last.op = "treatUndefinedSymbol" /\ last.pre.kind # "Defined")
  => Len(dupSymDiags) = last.preDups

\* A second treatUndefinedSymbol call for a boundary name found the synthetic
\* Defined of the first call and recorded it as a duplicate of itself.
SecondBoundaryTreatRecordedDuplicate ==
  /\ Treated
  /\ IsBoundaryName(last.name)
  /\ last.pre.kind = "Defined"
  /\ last.pre.file = NullFile
  /\ Len(dupSymDiags) = last.preDups + 1
  /\ dupSymDiags[Len(dupSymDiags)].sym = symMap[last.name]

====
